---- MODULE Spec2Model ----
(***************************************************************************)
(* A model of messages-tui's session engine: the modal input editor        *)
(* (internal/ui/input.go), the panel/leader-key controller and the         *)
(* Bubble Tea update loop of the App (internal/ui/app.go), and the bridge  *)
(* to the chat-protocol client (internal/client/client.go).                *)
(*                                                                         *)
(* A Go string is a sequence of bytes and the text input's value a         *)
(* sequence of runes, each a one-element string here; an ASCII rune is its *)
(* own byte, the rune Wide takes two bytes.  Go offsets are 0-based:       *)
(* val[i] in the source is val[i + 1] here.                                *)
(***************************************************************************)
EXTENDS Integers, Sequences, FiniteSets, Bags, TLC

VARIABLES
    app,          \* the App struct: state, focus, leader flag, the three panels
    inflight,     \* bag of tea.Cmd goroutines that have not yet delivered their message
    eventChan,    \* client.Client.eventChan, the protocol client's event feed
    externalMsgs, \* App.externalMsgs, the channel behind SetQRCode/SetConnected/SetError
    env,          \* the world outside the loop: initializeClient's progress, the
                  \* events pushed so far, the temp files of the external editor
                  \* and how its last run went
    ev,           \* observer: the message consumed by the last step
    pre,          \* observer: the App as the last step found it (kept by the
                  \* specifications whose properties relate the two ends of a step)
    hist          \* observer: the three keys consumed most recently (kept by SpecLeader)

vars == <<app, inflight, eventChan, externalMsgs, env, ev, pre, hist>>

-----------------------------------------------------------------------------
(* Bounds of the model *)

\* longest single-line buffer the user types
MaxLen == 3
\* most tea.Cmd goroutines alive at once
MaxInFlight == 3
\* most events the protocol client pushes on its feed during a run
MaxEvents == 2
\* most temp files the external editor's sessions create during a run
MaxEditorRuns == 2
\* the longest text typed into the input panel during a session
MaxTyped == 1

-----------------------------------------------------------------------------
(* Text helpers *)

Min(x, y) == IF x < y THEN x ELSE y
Max(x, y) == IF x > y THEN x ELSE y

SP == " "
NL == "\n"

IsSpace(ch) == ch \in {SP, NL}

\* strings.TrimSpace
RECURSIVE TrimLeft(_)
TrimLeft(s) ==
    IF s # <<>> /\ IsSpace(Head(s)) THEN TrimLeft(Tail(s)) ELSE s

RECURSIVE TrimRight(_)
TrimRight(s) ==
    IF s # <<>> /\ IsSpace(s[Len(s)]) THEN TrimRight(SubSeq(s, 1, Len(s) - 1)) ELSE s

TrimSpace(s) == TrimRight(TrimLeft(s))

\* Go slices val[:p] and val[p:]
Prefix(val, p) == SubSeq(val, 1, p)
Suffix(val, p) == SubSeq(val, p + 1, Len(val))

-----------------------------------------------------------------------------
(* bubbles textinput.Model, as InputModel uses it.  The input record holds *)
(* its value, pos and focus fields next to InputModel's own.               *)

\* textinput.Model.SetCursor: the position is clamped to the value
SetCursorUnclamped(m, p) == [m EXCEPT !.pos = p]
SetCursor(m, p) == [m EXCEPT !.pos = Max(0, Min(p, Len(m.value)))]

\* a rune outside ASCII, and its UTF-8 encoding
Wide == "U+00E9"
WideBytes == <<"0xC3", "0xA9">>

\* string(runes): the UTF-8 encoding of a rune slice
RECURSIVE Bytes(_)
Bytes(rs) ==
    IF rs = <<>> THEN <<>>
    ELSE (IF Head(rs) = Wide THEN WideBytes ELSE <<Head(rs)>>) \o Bytes(Tail(rs))

\* []rune(s) without the runes the sanitizer of textinput drops: a byte that
\* is not part of a well-formed encoding decodes to utf8.RuneError, which the
\* sanitizer skips
RECURSIVE Runes(_)
Runes(bs) ==
    IF bs = <<>> THEN <<>>
    ELSE IF Len(bs) >= 2 /\ SubSeq(bs, 1, 2) = WideBytes
    THEN <<Wide>> \o Runes(SubSeq(bs, 3, Len(bs)))
    ELSE IF Head(bs) \in {WideBytes[1], WideBytes[2]} THEN Runes(Tail(bs))
    ELSE <<Head(bs)>> \o Runes(Tail(bs))

\* the sanitizer of textinput replaces newlines (and tabs) by spaces
Sanitize(s) == [i \in 1..Len(s) |-> IF s[i] = NL THEN SP ELSE s[i]]

\* textinput.Model.Value: string(m.value)
Value(m) == Bytes(m.value)

\* textinput.Model.SetValue
TiSetValue(m, s) ==
    LET empty == Len(m.value) = 0
        m1 == [m EXCEPT !.value = Sanitize(Runes(s))]
    IN IF (m.pos = 0 /\ empty) \/ m.pos > Len(m1.value)
       THEN SetCursor(m1, Len(m1.value))
       ELSE m1

\* textinput.Model.Reset
TiReset(m) == SetCursor([m EXCEPT !.value = <<>>], 0)

TiFocus(m) == [m EXCEPT !.tiFocus = TRUE]
TiBlur(m) == [m EXCEPT !.tiFocus = FALSE]

\* keys whose String() is one byte long: tea.KeyRunes of one ASCII rune, and space
RuneKeys == {"a", "b", "c", "d", "e", "f", "g", "h", "i", "j", "k", "l", "m", "q", "r",
             "v", "w", "x", "A", "C", "D", "F", "G", "I", "0", "$", ";", ",", "/", SP}

\* keys that type a rune
TypedKeys == RuneKeys \cup {Wide}

\* textinput.Model.Update for a key: nothing unless focused; a rune is
\* inserted at the cursor, backspace deletes before it
TiUpdate(m, k) ==
    IF ~m.tiFocus THEN m
    ELSE IF k \in TypedKeys
    THEN [m EXCEPT !.value = Prefix(m.value, m.pos) \o <<k>> \o Suffix(m.value, m.pos),
                   !.pos = m.pos + 1]
    ELSE IF k = "backspace" /\ m.pos > 0
    THEN [m EXCEPT !.value = Prefix(m.value, m.pos - 1) \o Suffix(m.value, m.pos),
                   !.pos = m.pos - 1]
    ELSE m

-----------------------------------------------------------------------------
(* Messages (tea.Msg) and commands (tea.Cmd).  Every message has the same  *)
(* four fields; a field a message type does not carry is empty.            *)

Msg(type, key, conv, content) ==
    [type |-> type, key |-> key, conv |-> conv, content |-> content]
NoMsg == Msg("none", "", "", <<>>)
KeyMsg(k) == Msg("KeyMsg", k, "", <<>>)

Cmd(kind, msg) == [kind |-> kind, msg |-> msg]
NilCmd == Cmd("nil", NoMsg)
\* func() tea.Msg { return msg }
Emit(msg) == Cmd("emit", msg)

-----------------------------------------------------------------------------
(* InputModel: internal/ui/input.go *)

ModeInsert == "Insert"
ModeNormal == "Normal"

PendingNone == "None"
PendingFindForward == "FindForward"
PendingFindBackward == "FindBackward"
PendingChange == "Change"
PendingDelete == "Delete"

\* lastFindChar is a byte; 0 (no find yet) is the empty string here
NoChar == ""

NewInputModel ==
    [value |-> <<>>, pos |-> 0, tiFocus |-> FALSE, draftContent |-> <<>>,
     focused |-> FALSE, sending |-> FALSE, mode |-> ModeInsert,
     pendingAction |-> PendingNone, lastFindChar |-> NoChar, lastFindDir |-> 0]

Ret(m, cmd) == [m |-> m, cmd |-> cmd]

\* for pos < len(val) && val[pos] != ' ' { pos++ }
RECURSIVE SkipWord(_, _)
SkipWord(val, p) ==
    IF p < Len(val) /\ val[p + 1] # SP THEN SkipWord(val, p + 1) ELSE p

\* for pos < len(val) && val[pos] == ' ' { pos++ }
RECURSIVE SkipSpaces(_, _)
SkipSpaces(val, p) ==
    IF p < Len(val) /\ val[p + 1] = SP THEN SkipSpaces(val, p + 1) ELSE p

\* for pos > 0 && val[pos-1] == ' ' { pos-- }
RECURSIVE BackSpaces(_, _)
BackSpaces(val, p) ==
    IF p > 0 /\ val[p] = SP THEN BackSpaces(val, p - 1) ELSE p

\* for pos > 0 && val[pos-1] != ' ' { pos-- }
RECURSIVE BackWord(_, _)
BackWord(val, p) ==
    IF p > 0 /\ val[p] # SP THEN BackWord(val, p - 1) ELSE p

moveToNextWord(m) == SetCursor(m, SkipSpaces(Value(m), SkipWord(Value(m), m.pos)))

moveToPrevWord(m) == SetCursor(m, BackWord(Value(m), BackSpaces(Value(m), m.pos)))

moveToEndOfWord(m) ==
    LET val == Value(m)
        p1 == IF m.pos < Len(val) THEN m.pos + 1 ELSE m.pos
        p2 == SkipSpaces(val, p1)
        p3 == SkipWord(val, p2)
        p4 == IF p3 > 0 /\ (p3 >= Len(val) \/ val[p3 + 1] = SP) THEN p3 - 1 ELSE p3
    IN SetCursor(m, p4)

deleteCharAtCursor(m) ==
    IF m.pos < Len(Value(m))
    THEN SetCursor(TiSetValue(m, Prefix(Value(m), m.pos) \o Suffix(Value(m), m.pos + 1)),
                   m.pos)
    ELSE m

\* a mutant of deleteToEndOfLine: the whole line goes
deleteToEndOfLineAll(m) ==
    IF m.pos < Len(Value(m))
    THEN SetCursor(TiSetValue(m, <<>>), m.pos)
    ELSE m

deleteToEndOfLine(m) ==
    IF m.pos < Len(Value(m))
    THEN SetCursor(TiSetValue(m, Prefix(Value(m), m.pos)), m.pos)
    ELSE m

deleteToBeginningOfLine(m) ==
    IF m.pos > 0
    THEN SetCursor(TiSetValue(m, Suffix(Value(m), m.pos)), 0)
    ELSE m

\* a mutant of deleteToEndOfWord: the trailing spaces are not skipped
deleteToEndOfWordNoSpaces(m) ==
    LET endPos == SkipWord(Value(m), m.pos)
    IN IF endPos > m.pos
       THEN SetCursor(TiSetValue(m, Prefix(Value(m), m.pos) \o Suffix(Value(m), endPos)),
                      m.pos)
       ELSE m

deleteToEndOfWord(m) ==
    LET endPos == SkipSpaces(Value(m), SkipWord(Value(m), m.pos))
    IN IF endPos > m.pos
       THEN SetCursor(TiSetValue(m, Prefix(Value(m), m.pos) \o Suffix(Value(m), endPos)),
                      m.pos)
       ELSE m

\* first i in pos+1 .. len-1 with val[i] = ch, or -1
FindForward(val, pos, ch) ==
    LET S == {i \in (pos + 1)..(Len(val) - 1) : val[i + 1] = ch}
    IN IF S = {} THEN -1 ELSE CHOOSE i \in S : \A j \in S : i <= j

\* last i in 0 .. pos-1 with val[i] = ch, or -1
FindBackward(val, pos, ch) ==
    LET S == {i \in 0..(pos - 1) : val[i + 1] = ch}
    IN IF S = {} THEN -1 ELSE CHOOSE i \in S : \A j \in S : i >= j

FindFrom(m, dir, ch) ==
    LET i == IF dir > 0 THEN FindForward(Value(m), m.pos, ch)
                        ELSE FindBackward(Value(m), m.pos, ch)
    IN IF i >= 0 THEN SetCursor(m, i) ELSE m

repeatFind(m, dir) == FindFrom(m, dir, m.lastFindChar)

\* a mutant of SubmitContent: the buffer is sent, whatever the Draft holds
SubmitContentBuffer(m) == TrimSpace(Value(m))

\* the Enter branch shared by handleInsertMode and handleNormalMode
SubmitContent(m) ==
    LET d == TrimSpace(m.draftContent)
    IN IF d = <<>> THEN TrimSpace(Value(m)) ELSE d

\* a mutant of Submit: Enter sends whatever there is, nothing included
SubmitAlways(m) ==
    Ret([TiReset(m) EXCEPT !.draftContent = <<>>, !.sending = TRUE],
        Emit(Msg("SendMessageMsg", "", "", SubmitContent(m))))

Submit(m) ==
    LET content == SubmitContent(m)
    IN IF content # <<>>
       THEN Ret([TiReset(m) EXCEPT !.draftContent = <<>>, !.sending = TRUE],
                Emit(Msg("SendMessageMsg", "", "", content)))
       ELSE Ret(m, NilCmd)

\* a mutant of handleInsertMode: typing makes the Draft follow the buffer
handleInsertModeSync(m, k) ==
    CASE k = "esc" -> Ret(TiBlur([m EXCEPT !.mode = ModeNormal]), NilCmd)
      [] k = "enter" -> Submit(m)
      [] k = "ctrl+a" -> Ret(m, Emit(Msg("AttachFileMsg", "", "", <<>>)))
      [] OTHER -> Ret([TiUpdate(m, k) EXCEPT !.draftContent = Value(TiUpdate(m, k))], NilCmd)

\* a mutant of handleInsertMode: Escape steps the cursor back as vi does
handleInsertModeBack(m, k) ==
    CASE k = "esc" ->
           Ret(TiBlur([SetCursor(m, Max(m.pos - 1, 0)) EXCEPT !.mode = ModeNormal]), NilCmd)
      [] k = "enter" -> Submit(m)
      [] k = "ctrl+a" -> Ret(m, Emit(Msg("AttachFileMsg", "", "", <<>>)))
      [] OTHER -> Ret(TiUpdate(m, k), NilCmd)

handleInsertMode(m, k) ==
    CASE k = "esc" -> Ret(TiBlur([m EXCEPT !.mode = ModeNormal]), NilCmd)
      [] k = "enter" -> Submit(m)
      [] k = "ctrl+a" -> Ret(m, Emit(Msg("AttachFileMsg", "", "", <<>>)))
      [] OTHER -> Ret(TiUpdate(m, k), NilCmd)

ToInsert(m) == TiFocus([m EXCEPT !.mode = ModeInsert])

ClearLine(m) == [TiReset(m) EXCEPT !.draftContent = <<>>]

\* a mutant of handlePendingMotion: dd/cc only delete up to the end of the line
handlePendingMotionNoLine(m, k, change) ==
    LET fin(x) == IF change THEN ToInsert(x) ELSE x
        same == IF change THEN "c" ELSE "d"
    IN CASE k \in {"w", "e"} -> fin(deleteToEndOfWord(m))
         [] k = "$" -> fin(deleteToEndOfLine(m))
         [] k = same -> fin(deleteToEndOfLine(m))
         [] k = "0" -> fin(deleteToBeginningOfLine(m))
         [] OTHER -> m

\* the PendingChange (change = TRUE) and PendingDelete arms of
\* handlePendingAction, after pendingAction was reset
handlePendingMotion(m, k, change) ==
    LET fin(x) == IF change THEN ToInsert(x) ELSE x
        same == IF change THEN "c" ELSE "d"
    IN CASE k \in {"w", "e"} -> fin(deleteToEndOfWord(m))
         [] k = "$" -> fin(deleteToEndOfLine(m))
         [] k = same -> fin(ClearLine(m))
         [] k = "0" -> fin(deleteToBeginningOfLine(m))
         [] OTHER -> m

\* a mutant of handlePendingAction: a key that is no argument of f or F is
\* dropped and the find stays pending
handlePendingActionKeep(m, k) ==
    LET clr == [m EXCEPT !.pendingAction = PendingNone]
    IN IF k = "esc" THEN Ret(clr, NilCmd)
       ELSE CASE m.pendingAction \in {PendingFindForward, PendingFindBackward} ->
                   IF k \notin RuneKeys THEN Ret(m, NilCmd)
                   ELSE LET dir == IF m.pendingAction = PendingFindForward THEN 1 ELSE -1
                            m1 == [clr EXCEPT !.lastFindChar = k, !.lastFindDir = dir]
                        IN Ret(FindFrom(m1, dir, k), NilCmd)
              [] m.pendingAction = PendingChange ->
                   Ret(handlePendingMotion(clr, k, TRUE), NilCmd)
              [] m.pendingAction = PendingDelete ->
                   Ret(handlePendingMotion(clr, k, FALSE), NilCmd)
              [] OTHER -> Ret(clr, NilCmd)

handlePendingAction(m, k) ==
    LET clr == [m EXCEPT !.pendingAction = PendingNone]
    IN IF k = "esc" THEN Ret(clr, NilCmd)
       ELSE CASE m.pendingAction \in {PendingFindForward, PendingFindBackward} ->
                   IF k \notin RuneKeys THEN Ret(clr, NilCmd)
                   ELSE LET dir == IF m.pendingAction = PendingFindForward THEN 1 ELSE -1
                            m1 == [clr EXCEPT !.lastFindChar = k, !.lastFindDir = dir]
                        IN Ret(FindFrom(m1, dir, k), NilCmd)
              [] m.pendingAction = PendingChange ->
                   Ret(handlePendingMotion(clr, k, TRUE), NilCmd)
              [] m.pendingAction = PendingDelete ->
                   Ret(handlePendingMotion(clr, k, FALSE), NilCmd)
              [] OTHER -> Ret(clr, NilCmd)

handleNormalMode(m, k) ==
    IF m.pendingAction # PendingNone THEN handlePendingAction(m, k)
    ELSE CASE k = "i" -> Ret(ToInsert(m), NilCmd)
           [] k = "a" -> Ret(SetCursor(ToInsert(m), m.pos + 1), NilCmd)
           [] k = "A" -> Ret(SetCursor(ToInsert(m), Len(Value(m))), NilCmd)
           [] k = "I" -> Ret(SetCursor(ToInsert(m), 0), NilCmd)
           [] k = "v" -> Ret(m, Emit(Msg("OpenEditorMsg", "", "",
                                 IF m.draftContent = <<>> THEN Value(m)
                                                          ELSE m.draftContent)))
           [] k = "d" -> Ret([m EXCEPT !.pendingAction = PendingDelete], NilCmd)
           [] k = "D" -> Ret(deleteToEndOfLine(m), NilCmd)
           [] k = "c" -> Ret([m EXCEPT !.pendingAction = PendingChange], NilCmd)
           [] k = "C" -> Ret(ToInsert(deleteToEndOfLine(m)), NilCmd)
           [] k = "f" -> Ret([m EXCEPT !.pendingAction = PendingFindForward], NilCmd)
           [] k = "F" -> Ret([m EXCEPT !.pendingAction = PendingFindBackward], NilCmd)
           [] k = ";" -> Ret(IF m.lastFindChar # NoChar
                             THEN repeatFind(m, m.lastFindDir) ELSE m, NilCmd)
           [] k = "," -> Ret(IF m.lastFindChar # NoChar
                             THEN repeatFind(m, -m.lastFindDir) ELSE m, NilCmd)
           [] k = "0" -> Ret(SetCursor(m, 0), NilCmd)
           [] k = "$" -> Ret(SetCursor(m, Len(Value(m))), NilCmd)
           [] k = "h" -> Ret(IF m.pos > 0 THEN SetCursor(m, m.pos - 1) ELSE m, NilCmd)
           [] k = "l" -> Ret(IF m.pos < Len(Value(m)) THEN SetCursor(m, m.pos + 1) ELSE m,
                             NilCmd)
           [] k = "w" -> Ret(moveToNextWord(m), NilCmd)
           [] k = "b" -> Ret(moveToPrevWord(m), NilCmd)
           [] k = "e" -> Ret(moveToEndOfWord(m), NilCmd)
           [] k = "x" -> Ret(deleteCharAtCursor(m), NilCmd)
           [] k = "enter" -> Submit(m)
           [] k = "esc" -> Ret([m EXCEPT !.pendingAction = PendingNone], NilCmd)
           [] OTHER -> Ret(m, NilCmd)

\* InputModel.Update
InputUpdate(m, msg) ==
    CASE msg.type \in {"MessageSentNotifyMsg", "MessageFailedNotifyMsg"} ->
           Ret([m EXCEPT !.sending = FALSE], NilCmd)
      [] msg.type = "KeyMsg" /\ m.focused ->
           IF m.mode = ModeNormal THEN handleNormalMode(m, msg.key)
                                  ELSE handleInsertMode(m, msg.key)
      [] OTHER ->
           \* an unfocused input drops keys; textinput.Update ignores every
           \* message that is not a key
           Ret(m, NilCmd)

\* InputModel.SetFocused
InputSetFocused(m, focused) ==
    IF focused THEN TiFocus([m EXCEPT !.focused = TRUE, !.mode = ModeInsert])
               ELSE TiBlur([m EXCEPT !.focused = FALSE])

\* digits of a small count, fmt.Sprintf("%d", n)
Digits(n) == <<(<<"0", "1", "2", "3", "4", "5", "6", "7", "8", "9">>)[n + 1]>>

\* strings.Split(value, "\n")[0]
RECURSIVE FirstLine(_)
FirstLine(s) == IF s = <<>> \/ Head(s) = NL THEN <<>> ELSE <<Head(s)>> \o FirstLine(Tail(s))

LineCount(s) == 1 + Cardinality({i \in 1..Len(s) : s[i] = NL})

\* InputModel.SetValue
InputSetValue(m, value) ==
    LET m1 == [m EXCEPT !.draftContent = value]
    IN IF \E i \in 1..Len(value) : value[i] = NL
       THEN LET first == FirstLine(value)
                preview == IF Len(first) > 30
                           THEN Prefix(first, 30) \o <<".", ".", ".">> ELSE first
            IN TiSetValue(m1, preview \o <<SP, "[", "+">> \o Digits(LineCount(value) - 1)
                                 \o <<SP, "l", "i", "n", "e", "s", "]">>)
       ELSE TiSetValue(m1, value)

-----------------------------------------------------------------------------
(* ContactsModel: internal/ui/contacts.go *)

\* Go's integer division truncates toward zero
GoDiv(x, y) == IF x >= 0 THEN x \div y ELSE -((-x) \div y)

\* the conversations the chat-protocol service holds
ServerConversations ==
    <<[ID |-> "c1", Name |-> <<"a", "b">>], [ID |-> "c2", Name |-> <<"b">>]>>

NoConv == [ID |-> "", Name |-> <<>>]

NewContactsModel ==
    [conversations |-> <<>>, selected |-> 0, offset |-> 0, height |-> 0,
     focused |-> FALSE, searchMode |-> FALSE, searchQuery |-> <<>>,
     lastKeyWasG |-> FALSE]

\* strings.ToLower on the letters of the model
ToLowerCh(ch) ==
    CASE ch = "A" -> "a" [] ch = "C" -> "c" [] ch = "D" -> "d"
      [] ch = "F" -> "f" [] ch = "G" -> "g" [] ch = "I" -> "i"
      [] OTHER -> ch
ToLower(s) == [i \in 1..Len(s) |-> ToLowerCh(s[i])]

HasPrefix(t, q) == Len(q) <= Len(t) /\ SubSeq(t, 1, Len(q)) = q
Contains(t, q) == \E i \in 0..(Len(t) - Len(q)) : SubSeq(t, i + 1, i + Len(q)) = q

\* the scoring loop of fuzzyMatch from target index i on
RECURSIVE FuzzyLoop(_, _, _, _, _, _, _)
FuzzyLoop(q, t, i, queryIdx, score, lastMatchIdx, consecutive) ==
    IF ~(i < Len(t) /\ queryIdx < Len(q))
    THEN IF queryIdx < Len(q) THEN 0 ELSE score
    ELSE IF t[i + 1] = q[queryIdx + 1]
    THEN LET cons == IF lastMatchIdx = i - 1 THEN consecutive + 1 ELSE 0
             s1 == score + 10 + (IF lastMatchIdx = i - 1 THEN cons * 5 ELSE 0)
             s2 == IF i = 0 \/ t[i] \in {SP, "-", "_"} THEN s1 + 20 ELSE s1
         IN FuzzyLoop(q, t, i + 1, queryIdx + 1, s2, i, cons)
    ELSE FuzzyLoop(q, t, i + 1, queryIdx, score, lastMatchIdx, consecutive)

fuzzyMatch(q, t) ==
    IF q = <<>> THEN 1
    ELSE IF t = <<>> THEN 0
    ELSE IF Contains(t, q)
    THEN (IF HasPrefix(t, q) THEN 1000 ELSE 500) + Len(q)
    ELSE FuzzyLoop(q, t, 0, 0, 0, -1, 0)

Swap(r, i, j) == [r EXCEPT ![i] = r[j], ![j] = r[i]]

\* the exchange sort of getFilteredConversations, from the pair (i, j) on (1-based)
RECURSIVE SortFrom(_, _, _)
SortFrom(r, i, j) ==
    IF i >= Len(r) THEN r
    ELSE IF j > Len(r) THEN SortFrom(r, i + 1, i + 2)
    ELSE SortFrom(IF r[j].score > r[i].score THEN Swap(r, i, j) ELSE r, i, j + 1)

getFilteredConversations(m) ==
    IF m.searchQuery = <<>> THEN m.conversations
    ELSE LET query == ToLower(m.searchQuery)
             all == [i \in 1..Len(m.conversations) |->
                        [conv |-> m.conversations[i],
                         score |-> fuzzyMatch(query, ToLower(m.conversations[i].Name))]]
             results == SelectSeq(all, LAMBDA x : x.score > 0)
             sorted == SortFrom(results, 1, 2)
         IN [i \in 1..Len(sorted) |-> sorted[i].conv]

\* SelectedConversation; NoConv stands for nil
SelectedConversation(m) ==
    LET convs == getFilteredConversations(m)
    IN IF m.selected >= 0 /\ m.selected < Len(convs) THEN convs[m.selected + 1] ELSE NoConv

ContactsVisibleItemCount(m) == GoDiv(m.height - 3, 2)

deleteWordBackward(s) == Prefix(s, BackWord(s, BackSpaces(s, Len(s))))

\* tea.KeyRunes: a printable rune; space has its own key type
KeyRunes == RuneKeys \ {SP}

ResetSelection(m) == [m EXCEPT !.selected = 0, !.offset = 0]

handleSearchInput(m, k) ==
    CASE k = "esc" -> ResetSelection([m EXCEPT !.searchMode = FALSE, !.searchQuery = <<>>])
      [] k = "enter" -> [m EXCEPT !.searchMode = FALSE]
      [] k = "backspace" ->
           IF Len(m.searchQuery) > 0
           THEN ResetSelection([m EXCEPT !.searchQuery = Prefix(@, Len(@) - 1)])
           ELSE m
      [] k = "ctrl+u" -> ResetSelection([m EXCEPT !.searchQuery = <<>>])
      [] k = "ctrl+w" -> ResetSelection([m EXCEPT !.searchQuery = deleteWordBackward(@)])
      [] k \in KeyRunes -> ResetSelection([m EXCEPT !.searchQuery = @ \o <<k>>])
      [] OTHER -> m

\* ContactsModel.Update
ContactsUpdate(m, msg) ==
    IF ~m.focused \/ msg.type # "KeyMsg" THEN m
    ELSE IF m.searchMode THEN handleSearchInput(m, msg.key)
    ELSE IF msg.key = "g"
    THEN IF m.lastKeyWasG
         THEN [m EXCEPT !.selected = 0, !.offset = 0, !.lastKeyWasG = FALSE]
         ELSE [m EXCEPT !.lastKeyWasG = TRUE]
    ELSE LET m1 == [m EXCEPT !.lastKeyWasG = FALSE]
             k == msg.key
             vis == ContactsVisibleItemCount(m)
         IN CASE k \in {"up", "k"} ->
                   IF m1.selected > 0
                   THEN [m1 EXCEPT !.selected = @ - 1,
                                   !.offset = IF m1.selected - 1 < @ THEN m1.selected - 1
                                                                     ELSE @]
                   ELSE m1
              [] k \in {"down", "j"} ->
                   IF m1.selected < Len(m1.conversations) - 1
                   THEN [m1 EXCEPT !.selected = @ + 1,
                                   !.offset = IF m1.selected + 1 >= @ + vis
                                              THEN m1.selected + 1 - vis + 1 ELSE @]
                   ELSE m1
              [] k = "G" ->
                   IF Len(m1.conversations) > 0
                   THEN LET sel == Len(m1.conversations) - 1
                        IN [m1 EXCEPT !.selected = sel,
                                      !.offset = IF sel >= vis THEN sel - vis + 1 ELSE @]
                   ELSE m1
              [] k = "/" -> [m1 EXCEPT !.searchMode = TRUE, !.searchQuery = <<>>]
              [] OTHER -> m1

\* ContactsModel.SetConversations
SetConversations(m, convs) ==
    [m EXCEPT !.conversations = convs,
              !.selected = IF @ >= Len(convs) THEN Max(0, Len(convs) - 1) ELSE @]

\* a conversationsLoadedMsg carries the conversations by ID
ConvByID(id) ==
    CHOOSE c \in {ServerConversations[i] : i \in 1..Len(ServerConversations)} : c.ID = id
ConvsOf(ids) == [i \in 1..Len(ids) |-> ConvByID(ids[i])]

-----------------------------------------------------------------------------
(* MessagesModel: internal/ui/messages.go.  The message list is kept as    *)
(* its length, count.                                                      *)

NewMessagesModel ==
    [count |-> 0, conversationID |-> "", selected |-> 0, offset |-> 0, height |-> 0,
     focused |-> FALSE, lastKeyWasG |-> FALSE]

MessagesVisibleItemCount(m) == GoDiv(m.height - 3, 3)

\* MessagesModel.Update
MessagesUpdate(m, msg) ==
    IF ~m.focused \/ msg.type # "KeyMsg" THEN m
    ELSE IF msg.key = "g"
    THEN IF m.lastKeyWasG
         THEN [m EXCEPT !.selected = 0, !.offset = 0, !.lastKeyWasG = FALSE]
         ELSE [m EXCEPT !.lastKeyWasG = TRUE]
    ELSE LET m1 == [m EXCEPT !.lastKeyWasG = FALSE]
             k == msg.key
             vis == MessagesVisibleItemCount(m)
         IN CASE k \in {"up", "k"} ->
                   IF m1.selected > 0
                   THEN [m1 EXCEPT !.selected = @ - 1,
                                   !.offset = IF m1.selected - 1 < @ THEN m1.selected - 1
                                                                     ELSE @]
                   ELSE m1
              [] k \in {"down", "j"} ->
                   IF m1.selected < m1.count - 1
                   THEN [m1 EXCEPT !.selected = @ + 1,
                                   !.offset = IF m1.selected + 1 >= @ + vis
                                              THEN m1.selected + 1 - vis + 1 ELSE @]
                   ELSE m1
              [] k \in {"pgup", "ctrl+u"} ->
                   [m1 EXCEPT !.selected = Max(0, @ - vis), !.offset = Max(0, @ - vis)]
              [] k \in {"pgdown", "ctrl+d"} ->
                   [m1 EXCEPT !.selected = Min(m1.count - 1, @ + vis),
                              !.offset = Min(Max(0, m1.count - vis), @ + vis)]
              [] k = "home" -> [m1 EXCEPT !.selected = 0, !.offset = 0]
              [] k \in {"end", "G"} ->
                   IF m1.count > 0
                   THEN [m1 EXCEPT !.selected = m1.count - 1,
                                   !.offset = Max(0, m1.count - vis)]
                   ELSE m1
              [] OTHER -> m1

\* MessagesModel.SetMessages
SetMessages(m, conversationID, n) ==
    IF n > 0
    THEN [m EXCEPT !.conversationID = conversationID, !.count = n,
                   !.selected = n - 1, !.offset = Max(0, n - MessagesVisibleItemCount(m))]
    ELSE [m EXCEPT !.conversationID = conversationID, !.count = n,
                   !.selected = 0, !.offset = 0]

\* MessagesModel.AddMessage
AddMessage(m, conversationID) ==
    IF conversationID # m.conversationID THEN m
    ELSE [m EXCEPT !.count = @ + 1, !.selected = m.count,
                   !.offset = Max(0, m.count + 1 - MessagesVisibleItemCount(m))]

-----------------------------------------------------------------------------
(* Configuration defaults: DefaultKeybinds, quoted in PLAN.md *)

LeaderKey == "ctrl+space"
NavConversations == "c"
NavMessages == "m"
NavInput == "i"
QuitKey == "q"
NextPanelKey == "tab"
PrevPanelKey == "shift+tab"

-----------------------------------------------------------------------------
(* App: internal/ui/app.go *)

StateLoading == "Loading"
StateQRPairing == "QRPairing"
StateConnected == "Connected"
StateError == "Error"

PanelContacts == 0
PanelMessages == 1
PanelInput == 2

\* the tea.Cmd values App hands to the runtime
ListenForEvents == Cmd("listenForEvents", NoMsg)
ListenForExternalMsgs == Cmd("listenForExternalMsgs", NoMsg)
LoadConversations == Cmd("loadConversations", NoMsg)
LoadMessages(id) == Cmd("loadMessages", Msg("", "", id, <<>>))
SendMessage(id, content) == Cmd("sendMessage", Msg("", "", id, content))
StartEditorCmd(initial) == Cmd("editor", Msg("", "", "", initial))
QuitCmd == Emit(Msg("QuitMsg", "", "", <<>>))

NewApp ==
    [state |-> StateLoading, focusedPanel |-> PanelContacts, err |-> FALSE,
     statusMsg |-> "", leaderKeyPressed |-> FALSE,
     contacts |-> NewContactsModel, messages |-> NewMessagesModel,
     input |-> NewInputModel, activeConversationID |-> "",
     cancelled |-> FALSE, quit |-> FALSE]

\* what a branch of Update leaves behind: the App, the commands gathered so
\* far, and whether the branch returned before the focused panel's update
Res(a, cmds, done) == [a |-> a, cmds |-> cmds, done |-> done]

\* append a tea.Cmd; tea.Batch drops nil commands
AddCmd(cmds, c) == IF c = NilCmd THEN cmds ELSE Append(cmds, c)

\* a branch that ran a handler returning (App, tea.Cmd) and goes on to the
\* focused panel's update
Handled(r) == Res(r.a, AddCmd(<<>>, r.cmd), FALSE)

Unfocus(a) ==
    [a EXCEPT !.contacts.focused = FALSE, !.messages.focused = FALSE,
              !.input = InputSetFocused(@, FALSE)]

SetPanelFocused(a, panel) ==
    CASE panel = PanelContacts -> [a EXCEPT !.contacts.focused = TRUE]
      [] panel = PanelMessages -> [a EXCEPT !.messages.focused = TRUE]
      [] panel = PanelInput -> [a EXCEPT !.input = InputSetFocused(@, TRUE)]

\* a mutant of cycleFocus: the focus stops at the first and the last panel
cycleFocusNoWrap(a, direction) ==
    LET next == Max(0, Min(2, a.focusedPanel + direction))
    IN SetPanelFocused([Unfocus(a) EXCEPT !.focusedPanel = next], next)

cycleFocus(a, direction) ==
    LET next == (a.focusedPanel + direction + 3) % 3
    IN SetPanelFocused([Unfocus(a) EXCEPT !.focusedPanel = next], next)

PanelStatus(panel) ==
    CASE panel = PanelContacts -> "Conversations"
      [] panel = PanelMessages -> "Messages"
      [] panel = PanelInput -> "Input"

focusPanel(a, panel) ==
    [SetPanelFocused([Unfocus(a) EXCEPT !.focusedPanel = panel], panel)
        EXCEPT !.statusMsg = PanelStatus(panel)]

cancel(a) == [a EXCEPT !.cancelled = TRUE]

\* handleLeaderKey: the App and the command it returns (NilCmd for nil)
handleLeaderKey(a, k) ==
    IF k = "r" THEN [a |-> [a EXCEPT !.statusMsg = "Refreshing..."], cmd |-> LoadConversations]
    ELSE IF k = QuitKey THEN [a |-> cancel(a), cmd |-> QuitCmd]
    ELSE [a |-> a, cmd |-> NilCmd]

matchesLeaderKey(k) ==
    \/ k = LeaderKey
    \/ LeaderKey = "ctrl+space" /\ k \in {"ctrl+ ", "ctrl+@"}

NavKeys == {NavConversations, NavMessages, NavInput}

NavTarget(k) ==
    CASE k = NavConversations -> PanelContacts
      [] k = NavMessages -> PanelMessages
      [] k = NavInput -> PanelInput

\* handleLeaderNavigation, when it returns true
handleLeaderNavigation(a, k) == focusPanel(a, NavTarget(k))

handleConnectedInput(a, k) ==
    LET conv == SelectedConversation(a.contacts)
    IN IF a.focusedPanel = PanelContacts /\ k = "enter" /\ conv # NoConv
       THEN [a |-> [a EXCEPT !.activeConversationID = conv.ID, !.statusMsg = "Selected"],
             cmd |-> LoadMessages(conv.ID)]
       ELSE [a |-> a, cmd |-> NilCmd]

\* a mutant of NormalKey: the quit keys quit whatever the input holds
NormalKeyQuitAlways(a, k) ==
    IF matchesLeaderKey(k)
    THEN Res([a EXCEPT !.leaderKeyPressed = TRUE, !.statusMsg = "-- LEADER --"], <<>>, TRUE)
    ELSE IF k \in {QuitKey, "ctrl+c"}
    THEN Res(cancel(a), <<QuitCmd>>, TRUE)
    ELSE IF k = NextPanelKey THEN Res(cycleFocus(a, 1), <<>>, TRUE)
    ELSE IF k = PrevPanelKey THEN Res(cycleFocus(a, -1), <<>>, TRUE)
    ELSE IF a.state = StateConnected
    THEN Handled(handleConnectedInput(a, k))
    ELSE Res(a, <<>>, FALSE)

\* Update for a key once the leader chord is out of the way: the leader
\* test, the global keys, then the state-specific input
NormalKey(a, k) ==
    IF matchesLeaderKey(k)
    THEN Res([a EXCEPT !.leaderKeyPressed = TRUE, !.statusMsg = "-- LEADER --"], <<>>, TRUE)
    ELSE IF k \in {QuitKey, "ctrl+c"} /\ ~(a.focusedPanel = PanelInput /\ a.input.value # <<>>)
    THEN Res(cancel(a), <<QuitCmd>>, TRUE)
    ELSE IF k = NextPanelKey THEN Res(cycleFocus(a, 1), <<>>, TRUE)
    ELSE IF k = PrevPanelKey THEN Res(cycleFocus(a, -1), <<>>, TRUE)
    ELSE IF a.state = StateConnected
    THEN Handled(handleConnectedInput(a, k))
    ELSE Res(a, <<>>, FALSE)

\* a mutant of UpdateKey: a pending chord swallows the key that matches nothing
UpdateKeyConsume(a, k) ==
    IF ~a.leaderKeyPressed THEN NormalKey(a, k)
    ELSE IF k = "esc"
    THEN Res([a EXCEPT !.leaderKeyPressed = FALSE, !.statusMsg = ""], <<>>, TRUE)
    ELSE LET r == handleLeaderKey([a EXCEPT !.leaderKeyPressed = FALSE], k)
         IN IF r.cmd # NilCmd THEN Res(r.a, <<r.cmd>>, TRUE)
            ELSE IF k \in NavKeys THEN Res(handleLeaderNavigation(r.a, k), <<>>, TRUE)
            ELSE Res(r.a, <<>>, TRUE)

\* a mutant of UpdateKey: the key that matches nothing leaves the chord pending
UpdateKeySticky(a, k) ==
    IF ~a.leaderKeyPressed THEN NormalKey(a, k)
    ELSE IF k = "esc"
    THEN Res([a EXCEPT !.leaderKeyPressed = FALSE, !.statusMsg = ""], <<>>, TRUE)
    ELSE LET r == handleLeaderKey([a EXCEPT !.leaderKeyPressed = FALSE], k)
         IN IF r.cmd # NilCmd THEN Res(r.a, <<r.cmd>>, TRUE)
            ELSE IF k \in NavKeys THEN Res(handleLeaderNavigation(r.a, k), <<>>, TRUE)
            ELSE NormalKey(a, k)

\* a mutant of UpdateKey: the escape that cancels the chord also reaches the
\* focused panel
UpdateKeyEscFalls(a, k) ==
    IF ~a.leaderKeyPressed THEN NormalKey(a, k)
    ELSE IF k = "esc"
    THEN Res([a EXCEPT !.leaderKeyPressed = FALSE, !.statusMsg = ""], <<>>, FALSE)
    ELSE LET r == handleLeaderKey([a EXCEPT !.leaderKeyPressed = FALSE], k)
         IN IF r.cmd # NilCmd THEN Res(r.a, <<r.cmd>>, TRUE)
            ELSE IF k \in NavKeys THEN Res(handleLeaderNavigation(r.a, k), <<>>, TRUE)
            ELSE NormalKey(r.a, k)

\* the tea.KeyMsg case of Update
UpdateKey(a, k) ==
    IF ~a.leaderKeyPressed THEN NormalKey(a, k)
    ELSE IF k = "esc"
    THEN Res([a EXCEPT !.leaderKeyPressed = FALSE, !.statusMsg = ""], <<>>, TRUE)
    ELSE LET r == handleLeaderKey([a EXCEPT !.leaderKeyPressed = FALSE], k)
         IN IF r.cmd # NilCmd THEN Res(r.a, <<r.cmd>>, TRUE)
            ELSE IF k \in NavKeys THEN Res(handleLeaderNavigation(r.a, k), <<>>, TRUE)
            ELSE NormalKey(r.a, k)

\* handleClientEvent; msg.key is the event type, msg.conv the conversation
\* of a new message
handleClientEvent(a, msg) ==
    CASE msg.key = "Connected" -> [a |-> a, cmd |-> Emit(Msg("connectedMsg", "", "", <<>>))]
      [] msg.key = "Disconnected" -> [a |-> [a EXCEPT !.statusMsg = "Disconnected"], cmd |-> NilCmd]
      [] msg.key = "NewMessage" ->
           [a |-> [a EXCEPT !.messages = AddMessage(@, msg.conv)], cmd |-> LoadConversations]
      [] msg.key = "ConversationsUpdated" -> [a |-> a, cmd |-> LoadConversations]
      [] msg.key = "Error" -> [a |-> [a EXCEPT !.statusMsg = "Error"], cmd |-> NilCmd]
      [] OTHER -> [a |-> a, cmd |-> NilCmd]

\* sendMessage
sendMessage(a, content) ==
    IF a.activeConversationID = ""
    THEN [a |-> [a EXCEPT !.statusMsg = "Select a conversation first! (Enter in contacts)",
                          !.input = InputUpdate(@, Msg("MessageFailedNotifyMsg", "", "", <<>>)).m],
          cmd |-> NilCmd]
    ELSE [a |-> a, cmd |-> SendMessage(a.activeConversationID, content)]

\* a mutant of EditorResult: the text the editor returned is sent at once
EditorResultSends(a, msg) ==
    IF msg.key = "err"
    THEN Res([a EXCEPT !.statusMsg = "Editor error"], <<>>, FALSE)
    ELSE Res(a, <<Emit(Msg("SendMessageMsg", "", "", msg.content))>>, FALSE)

\* the EditorResultMsg case of Update: the text goes to the input panel for
\* review
EditorResult(a, msg) ==
    IF msg.key = "err"
    THEN Res([a EXCEPT !.statusMsg = "Editor error"], <<>>, FALSE)
    ELSE Res([a EXCEPT !.input = InputSetFocused(InputSetValue(@, msg.content), TRUE),
                       !.contacts.focused = FALSE, !.messages.focused = FALSE,
                       !.focusedPanel = PanelInput,
                       !.statusMsg = "Press Enter to send"], <<>>, FALSE)

\* the type switch of Update
UpdateSwitch(a, msg) ==
    CASE msg.type = "KeyMsg" -> UpdateKey(a, msg.key)
      [] msg.type = "Event" ->
           Handled(handleClientEvent(a, msg))
      [] msg.type = "SendMessageMsg" ->
           Handled(sendMessage(a, msg.content))
      [] msg.type = "OpenEditorMsg" -> Res(a, <<StartEditorCmd(msg.content)>>, TRUE)
      [] msg.type = "EditorResultMsg" -> EditorResult(a, msg)
      [] msg.type = "EditorCancelledMsg" ->
           Res([a EXCEPT !.statusMsg = "Message cancelled"], <<>>, FALSE)
      [] msg.type = "conversationsLoadedMsg" ->
           Res([a EXCEPT !.contacts = SetConversations(@, ConvsOf(msg.content)),
                         !.statusMsg = "Loaded conversations"], <<>>, FALSE)
      [] msg.type = "messagesLoadedMsg" ->
           Res([a EXCEPT !.messages = SetMessages(@, msg.conv, Len(msg.content))], <<>>, FALSE)
      [] msg.type = "messageSentMsg" ->
           LET a1 == [a EXCEPT !.statusMsg = "Message sent",
                               !.input = InputUpdate(@, Msg("MessageSentNotifyMsg", "", "", <<>>)).m]
           IN Res(a1, IF a.activeConversationID # ""
                      THEN <<LoadMessages(a.activeConversationID)>> ELSE <<>>, FALSE)
      [] msg.type = "qrCodeMsg" ->
           Res([a EXCEPT !.state = StateQRPairing], <<ListenForExternalMsgs>>, FALSE)
      [] msg.type = "connectedMsg" ->
           Res([a EXCEPT !.state = StateConnected, !.statusMsg = "Connected",
                         !.contacts.focused = TRUE],
               <<LoadConversations, ListenForExternalMsgs>>, FALSE)
      [] msg.type = "errorMsg" ->
           Res([a EXCEPT !.err = TRUE, !.statusMsg = "Error",
                         !.input = InputUpdate(@, Msg("MessageFailedNotifyMsg", "", "", <<>>)).m,
                         !.state = IF @ # StateConnected THEN StateError ELSE @],
               <<ListenForExternalMsgs>>, FALSE)
      [] OTHER -> Res(a, <<>>, FALSE)

\* the contacts panel after its update: load the messages of the selected
\* conversation, if there is one
LoadSelected(a, conv, cmds) ==
    [a |-> a, cmds |-> IF conv # NoConv THEN Append(cmds, LoadMessages(conv.ID)) ELSE cmds]

ContactsFocused(a, contacts, cmds) ==
    LoadSelected([a EXCEPT !.contacts = contacts], SelectedConversation(contacts), cmds)

InputFocused(a, r, cmds) == [a |-> [a EXCEPT !.input = r.m], cmds |-> AddCmd(cmds, r.cmd)]

\* the "update focused component" tail of Update
UpdateFocused(a, msg, cmds) ==
    CASE a.focusedPanel = PanelContacts ->
           ContactsFocused(a, ContactsUpdate(a.contacts, msg), cmds)
      [] a.focusedPanel = PanelMessages ->
           [a |-> [a EXCEPT !.messages = MessagesUpdate(@, msg)], cmds |-> cmds]
      [] a.focusedPanel = PanelInput ->
           InputFocused(a, InputUpdate(a.input, msg), cmds)

\* what follows the type switch: a branch that returned is final, any other
\* goes on to the focused panel
AfterSwitch(r, msg) ==
    IF r.done THEN [a |-> r.a, cmds |-> r.cmds] ELSE UpdateFocused(r.a, msg, r.cmds)

\* App.Update: the new App and the batch of commands it returns
Update(a, msg) == AfterSwitch(UpdateSwitch(a, msg), msg)

-----------------------------------------------------------------------------
(* The Bubble Tea runtime: every tea.Cmd runs in its own goroutine and its *)
(* message reaches Update when the loop takes it, one message at a time.   *)

RECURSIVE SeqToBag(_)
SeqToBag(cmds) ==
    IF cmds = <<>> THEN EmptyBag ELSE SetToBag({Head(cmds)}) (+) SeqToBag(Tail(cmds))

One(c) == SetToBag({c})

NoKeys == <<"", "", "">>

\* no external editor has run yet
NoRun == [exit |-> "", read |-> "", text |-> <<>>]

\* App.Init: the batch of listenForEvents and listenForExternalMsgs
Init ==
    /\ app = NewApp
    /\ inflight = SeqToBag(<<ListenForEvents, ListenForExternalMsgs>>)
    /\ eventChan = <<>>
    /\ externalMsgs = <<>>
    /\ env = [init |-> "start", clientSet |-> FALSE, pushed |-> 0,
              files |-> {}, created |-> 0, run |-> NoRun]
    /\ ev = NoMsg
    /\ pre = NewApp
    /\ hist = NoKeys

\* the buffer stays within MaxLen: a rune is typed only while there is room
Room(m, k) == ~(m.mode = ModeInsert /\ k \in TypedKeys /\ Len(m.value) >= MaxLen)

\* the loop takes msg and runs Update; rest is what stays in flight
Updated(r, msg, rest) ==
    /\ ~app.quit
    /\ BagCardinality(rest (+) SeqToBag(r.cmds)) <= MaxInFlight
    /\ app' = r.a
    /\ inflight' = rest (+) SeqToBag(r.cmds)
    /\ ev' = msg

Consume(msg, rest) == Updated(Update(app, msg), msg, rest)

\* c, in flight, finishes as the commands in done (none when it returns nil)
Finish(c, done) == inflight' = (inflight (-) One(c)) (+) SeqToBag(done)

InFlight(c) == BagIn(c, inflight)

\* the keys the user presses during a session
SessionKeys == {"tab", "enter", "a", QuitKey}

\* the service calls that may fail although a protocol client is set
FailingCalls == {"sendMessage"}

\* messages one conversation holds on the server
ServerMessages == <<"m">>

\* the events the protocol library hands to Client.handleEvent
ClientEvents == {Msg("Event", "NewMessage", "c1", <<>>),
                 Msg("Event", "ConversationsUpdated", "", <<>>)}

\* errorMsg{err}; key names the call that failed and conv, content what that
\* call was given
ErrorMsg(origin, call) == Msg("errorMsg", origin, call.conv, call.content)

\* a key arrives from the terminal
KeyStep(k) ==
    /\ (app.focusedPanel = PanelInput /\ k \in RuneKeys) => Len(app.input.value) < MaxTyped
    /\ Consume(KeyMsg(k), inflight)
    /\ UNCHANGED <<eventChan, externalMsgs, env>>

\* the message a finished command returned reaches Update; tea.QuitMsg ends
\* the loop instead
DeliverStep ==
    \E c \in BagToSet(inflight) :
        /\ c.kind = "emit"
        /\ IF c.msg.type = "QuitMsg"
           THEN /\ ~app.quit
                /\ app' = [app EXCEPT !.quit = TRUE]
                /\ inflight' = inflight (-) One(c)
                /\ ev' = c.msg
           ELSE Consume(c.msg, inflight (-) One(c))
        /\ UNCHANGED <<eventChan, externalMsgs, env>>

\* the goroutine of listenForEvents: one receive from the client's channel,
\* or nil once the context is cancelled
ListenEventsStep ==
    /\ InFlight(ListenForEvents)
    /\ \/ /\ eventChan # <<>>
          /\ Finish(ListenForEvents, <<Emit(Head(eventChan))>>)
          /\ eventChan' = Tail(eventChan)
       \/ /\ app.cancelled
          /\ Finish(ListenForEvents, <<>>)
          /\ UNCHANGED eventChan
    /\ UNCHANGED <<app, externalMsgs, env, ev>>

\* the goroutine of listenForExternalMsgs
ListenExternalStep ==
    /\ InFlight(ListenForExternalMsgs)
    /\ \/ /\ externalMsgs # <<>>
          /\ Finish(ListenForExternalMsgs, <<Emit(Head(externalMsgs))>>)
          /\ externalMsgs' = Tail(externalMsgs)
       \/ /\ app.cancelled
          /\ Finish(ListenForExternalMsgs, <<>>)
          /\ UNCHANGED externalMsgs
    /\ UNCHANGED <<app, eventChan, env, ev>>

\* the goroutine of loadConversations: Client.ListConversations fails without
\* a protocol client and may fail with one
ListConversationsRun(ok) ==
    /\ InFlight(LoadConversations)
    /\ ok = env.clientSet \/ (~ok /\ "loadConversations" \in FailingCalls)
    /\ Finish(LoadConversations,
              <<Emit(IF ok THEN Msg("conversationsLoadedMsg", "", "",
                                    [i \in 1..Len(ServerConversations) |->
                                        ServerConversations[i].ID])
                           ELSE ErrorMsg("list", NoMsg))>>)
    /\ UNCHANGED <<app, eventChan, externalMsgs, env, ev>>

RunLoadConversationsStep == \E ok \in BOOLEAN : ListConversationsRun(ok)

\* the goroutine of loadMessages
GetMessagesRun(c, ok) ==
    /\ c.kind = "loadMessages"
    /\ ok = env.clientSet \/ (~ok /\ "loadMessages" \in FailingCalls)
    /\ Finish(c, <<Emit(IF ok THEN Msg("messagesLoadedMsg", "", c.msg.conv,
                                      ServerMessages)
                             ELSE ErrorMsg("fetch", c.msg))>>)
    /\ UNCHANGED <<app, eventChan, externalMsgs, env, ev>>

RunLoadMessagesStep ==
    \E c \in BagToSet(inflight) : \E ok \in BOOLEAN : GetMessagesRun(c, ok)

\* the goroutine of sendMessage: the call Client.SendMessage(convID, content)
RunSendMessageStep ==
    \E c \in BagToSet(inflight) :
        /\ c.kind = "sendMessage"
        /\ \E ok \in BOOLEAN :
             /\ ok = env.clientSet \/ (~ok /\ "sendMessage" \in FailingCalls)
             /\ Finish(c, <<Emit(IF ok THEN Msg("messageSentMsg", "", "", <<>>)
                                      ELSE ErrorMsg("send", c.msg))>>)
        /\ UNCHANGED <<app, eventChan, externalMsgs, env, ev>>

\* Client.handleEvent, installed by SetClient: the library reports a message
\* or an account change
handleEvent(e) ==
    /\ env.clientSet
    /\ env.pushed < MaxEvents
    /\ eventChan' = Append(eventChan, e)
    /\ env' = [env EXCEPT !.pushed = @ + 1]
    /\ UNCHANGED <<app, inflight, externalMsgs, ev>>

ClientPushStep == \E e \in ClientEvents : handleEvent(e)

\* main.initializeClient, session restored: SetClient, then SetConnected
InitRestoreStep ==
    /\ env.init = "start"
    /\ env' = [env EXCEPT !.init = "done", !.clientSet = TRUE]
    /\ externalMsgs' = Append(externalMsgs, Msg("connectedMsg", "", "", <<>>))
    /\ UNCHANGED <<app, inflight, eventChan, ev>>

\* main.initializeClient, no session: pairing starts and a QR code is shown
InitQRStep ==
    /\ env.init = "start"
    /\ env' = [env EXCEPT !.init = "pairing"]
    /\ externalMsgs' = Append(externalMsgs, Msg("qrCodeMsg", "", "", <<>>))
    /\ UNCHANGED <<app, inflight, eventChan, ev>>

\* main.initializeClient, pairing done: Connect, SetClient, SetConnected
InitPairedStep ==
    /\ env.init = "pairing"
    /\ env' = [env EXCEPT !.init = "done", !.clientSet = TRUE]
    /\ externalMsgs' = Append(externalMsgs, Msg("connectedMsg", "", "", <<>>))
    /\ UNCHANGED <<app, inflight, eventChan, ev>>

\* main: initializeClient returned an error, SetError
InitFailStep ==
    /\ env.init \in {"start", "pairing"}
    /\ env' = [env EXCEPT !.init = "done"]
    /\ externalMsgs' = Append(externalMsgs, ErrorMsg("external", NoMsg))
    /\ UNCHANGED <<app, inflight, eventChan, ev>>

KeyPress == \E k \in SessionKeys : KeyStep(k) /\ UNCHANGED <<pre, hist>>
Deliver == DeliverStep /\ UNCHANGED <<pre, hist>>
ListenEvents == ListenEventsStep /\ UNCHANGED <<pre, hist>>
ListenExternal == ListenExternalStep /\ UNCHANGED <<pre, hist>>
RunLoadConversations == RunLoadConversationsStep /\ UNCHANGED <<pre, hist>>
RunLoadMessages == RunLoadMessagesStep /\ UNCHANGED <<pre, hist>>
RunSendMessage == RunSendMessageStep /\ UNCHANGED <<pre, hist>>
ClientPush == ClientPushStep /\ UNCHANGED <<pre, hist>>
InitRestore == InitRestoreStep /\ UNCHANGED <<pre, hist>>
InitQR == InitQRStep /\ UNCHANGED <<pre, hist>>
InitPaired == InitPairedStep /\ UNCHANGED <<pre, hist>>
InitFail == InitFailStep /\ UNCHANGED <<pre, hist>>

Next ==
    \/ KeyPress
    \/ Deliver
    \/ ListenEvents
    \/ ListenExternal
    \/ RunLoadConversations
    \/ RunLoadMessages
    \/ RunSendMessage
    \/ ClientPush
    \/ InitRestore
    \/ InitQR
    \/ InitPaired
    \/ InitFail

Spec == Init /\ [][Next]_vars

-----------------------------------------------------------------------------
(* The leader chord on its own: keys, with the App each key found and the  *)
(* last three keys remembered.                                             *)

LeaderKeys == {"ctrl+@", "esc", NavInput, "r", NextPanelKey, "x"}

LeaderKeyPress ==
    \E k \in LeaderKeys :
        /\ KeyStep(k)
        /\ pre' = app
        /\ hist' = <<hist[2], hist[3], k>>

LeaderDeliver == DeliverStep /\ pre' = app /\ UNCHANGED hist

LeaderNext == LeaderKeyPress \/ LeaderDeliver \/ RunLoadConversations

SpecLeader == Init /\ [][LeaderNext]_vars

-----------------------------------------------------------------------------
(* Properties of the leader chord, checked under SpecLeader *)

\* the keys of handleLeaderKey's command table
LeaderCommands == {"r", QuitKey}

\* the last step delivered key k to an App whose chord was pending, and k is
\* neither escape nor a mapped navigation or command key
LeaderUnmatched(k) ==
    /\ ev = KeyMsg(k)
    /\ pre.leaderKeyPressed
    /\ k # "esc"
    /\ k \notin NavKeys \cup LeaderCommands

\* C1 as stated: with a chord pending, a key that is neither escape nor mapped
\* only clears the pending state and is not handled as a normal key.
UnmatchedKeyOnlyClears ==
    \A k \in LeaderKeys :
        LeaderUnmatched(k) => app = [pre EXCEPT !.leaderKeyPressed = FALSE]

\* C1: with a chord pending, a key that is neither escape nor mapped clears
\* the pending state and is then handled as the same key is with no chord
\* pending: the leader key arms the chord again, Tab cycles focus, a rune
\* reaches the focused input panel.
UnmatchedKeyFallsThrough ==
    \A k \in LeaderKeys :
        LeaderUnmatched(k) =>
            /\ app = Update([pre EXCEPT !.leaderKeyPressed = FALSE], KeyMsg(k)).a
            /\ app.leaderKeyPressed = matchesLeaderKey(k)
            /\ k = NextPanelKey => app.focusedPanel = (pre.focusedPanel + 1) % 3
            /\ (k = "x" /\ pre.focusedPanel = PanelInput /\ pre.input.focused
                        /\ pre.input.mode = ModeInsert)
                  => app.input.value = pre.input.value \o <<"x">>

\* C1 witness: Tab pressed with a chord pending moved the focus on.
TabAfterLeaderCycled ==
    /\ LeaderUnmatched(NextPanelKey)
    /\ pre.focusedPanel = PanelContacts
    /\ app.focusedPanel = PanelMessages
    /\ ~app.leaderKeyPressed

\* the last key changed neither the focused panel nor the status line
NoJump ==
    /\ app.focusedPanel = pre.focusedPanel
    /\ app.statusMsg = pre.statusMsg

\* the last three keys were leader, K, N, with K absent from the navigation
\* and command tables and not escape, N a navigation key, and N the key the
\* last step delivered
LeaderThenUnmappedThenNav ==
    /\ matchesLeaderKey(hist[1])
    /\ hist[2] \in LeaderKeys \ (NavKeys \cup LeaderCommands \cup {"esc"})
    /\ hist[3] \in NavKeys
    /\ ev = KeyMsg(hist[3])

\* C2 as stated: for every key sequence leader, K, N with K absent from the
\* navigation and command tables and not escape, and N a navigation key, N
\* does not navigate.
UnmappedKeyBlocksJump == LeaderThenUnmappedThenNav => NoJump

\* C2: for every key sequence leader, K, N with K absent from the tables, not
\* escape and not the leader key itself, N does not navigate; a navigation key
\* jumps only when the key before it was the leader key.
JumpOnlyRightAfterLeader ==
    /\ (LeaderThenUnmappedThenNav /\ ~matchesLeaderKey(hist[2])) => NoJump
    /\ (ev = KeyMsg(hist[3]) /\ hist[3] \in NavKeys /\ ~matchesLeaderKey(hist[2]))
          => app.focusedPanel = pre.focusedPanel

\* C2 witness: leader, x, i were pressed with the contacts panel in focus and
\* the focus stayed where it was.
NavKeyAfterUnmappedKey ==
    /\ hist = <<"ctrl+@", "x", NavInput>>
    /\ ev = KeyMsg(NavInput)
    /\ pre.focusedPanel = PanelContacts
    /\ ~pre.leaderKeyPressed
    /\ NoJump

-----------------------------------------------------------------------------
(* Properties of the session, checked under Spec *)

\* the background operations, by kind, and the messages that end them
OpKinds == {"loadConversations", "loadMessages", "sendMessage", "editor"}

ResultOf(kind, msg) ==
    CASE kind = "loadConversations" ->
           msg.type = "conversationsLoadedMsg" \/ (msg.type = "errorMsg" /\ msg.key = "list")
      [] kind = "loadMessages" ->
           msg.type = "messagesLoadedMsg" \/ (msg.type = "errorMsg" /\ msg.key = "fetch")
      [] kind = "sendMessage" ->
           msg.type = "messageSentMsg" \/ (msg.type = "errorMsg" /\ msg.key = "send")
      [] kind = "editor" ->
           msg.type \in {"EditorResultMsg", "EditorCancelledMsg"}

\* copies of the elements of elems in bag
RECURSIVE Copies(_, _)
Copies(bag, elems) ==
    IF elems = {} THEN 0
    ELSE LET c == CHOOSE x \in elems : TRUE
         IN CopiesIn(c, bag) + Copies(bag, elems \ {c})

\* operations of a kind dispatched whose result Update has not consumed yet
Outstanding(bag, kind) ==
    Copies(bag, {c \in BagToSet(bag) :
                    c.kind = kind \/ (c.kind = "emit" /\ ResultOf(kind, c.msg))})

\* send requests on their way to App.sendMessage
SendRequests(bag) ==
    Copies(bag, {c \in BagToSet(bag) : c.kind = "emit" /\ c.msg.type = "SendMessageMsg"})

Running == ~app.cancelled /\ ~app.quit

\* C3: every event the client pushes on its feed is eventually consumed by the
\* session loop while the session is not cancelled, the second and later
\* events included.  For that an event waiting in the feed of a running
\* session needs a reader: listenForEvents in flight, or an event on its way
\* to Update, which would start the next listenForEvents.
FeedHasReader ==
    (eventChan # <<>> /\ Running) =>
        \/ InFlight(ListenForEvents)
        \/ \E c \in BagToSet(inflight) : c.kind = "emit" /\ c.msg.type = "Event"

\* C4: at most one background operation of each kind is in flight at any
\* time, in flight meaning dispatched and its result not yet consumed.
OneInFlightPerKind == \A kind \in OpKinds : Outstanding(inflight, kind) <= 1

\* C5: while a send is outstanding, a step in which Enter is pressed raises no
\* send request.
NoSendWhileSending ==
    [][(Running /\ Outstanding(inflight, "sendMessage") >= 1 /\ ev' = KeyMsg("enter"))
          => SendRequests(inflight') <= SendRequests(inflight)]_vars

\* the last message Update consumed was a send that failed: the send
\* operation's error, or a send request rejected for want of a conversation
SendFailed ==
    \/ ev.type = "errorMsg" /\ ev.key = "send"
    \/ ev.type = "SendMessageMsg" /\ app.activeConversationID = ""

\* C6: when a send fails the sending indicator is cleared and the submitted
\* text is still held in the Draft or the editor buffer.
FailedSendKeepsText ==
    SendFailed =>
        /\ ~app.input.sending
        /\ \/ TrimSpace(app.input.draftContent) = ev.content
           \/ /\ Len(Value(app.input)) >= Len(ev.content)
              /\ Prefix(Value(app.input), Len(ev.content)) = ev.content

\* C7: in every reachable state, from startup on, exactly one panel's focused
\* flag is set and it is the flag of the session's focused panel.
FocusAgrees ==
    /\ app.contacts.focused = (app.focusedPanel = PanelContacts)
    /\ app.messages.focused = (app.focusedPanel = PanelMessages)
    /\ app.input.focused = (app.focusedPanel = PanelInput)

-----------------------------------------------------------------------------
(* The input editor on its own: keys delivered to a focused InputModel.    *)

\* what the user types as text in Insert mode
InsertKeys == {"a", Wide, SP, "backspace", "esc", "enter"}
\* Normal-mode commands
NormalKeys == {"i", "a", "A", "I", "d", "D", "c", "C", "f", "F", ";", ",", "0", "$",
               "h", "l", "w", "b", "e", "x", "enter", "esc", "tab"}
\* the key that follows d or c
MotionKeys == {"w", "e", "$", "0", "d", "c", "a", "esc", "tab"}
\* the key that follows f or F
FindKeys == {"a", SP, "d", "esc", "tab"}

EditorKeysFor(m) ==
    IF m.mode = ModeInsert THEN InsertKeys
    ELSE IF m.pendingAction = PendingNone THEN NormalKeys
    ELSE IF m.pendingAction \in {PendingChange, PendingDelete} THEN MotionKeys
    ELSE FindKeys

\* text the external editor hands back
EditorTexts == {<<"a", SP, "a">>}

EdKey ==
    \E k \in EditorKeysFor(app.input) :
        /\ app.input.focused
        /\ Room(app.input, k)
        /\ app' = [app EXCEPT !.input = InputUpdate(@, KeyMsg(k)).m]
        /\ ev' = KeyMsg(k)
        /\ pre' = app
        /\ UNCHANGED <<inflight, eventChan, externalMsgs, env, hist>>

EdSetFocused ==
    \E b \in BOOLEAN :
        /\ app.input.focused # b
        /\ app' = [app EXCEPT !.input = InputSetFocused(@, b)]
        /\ ev' = NoMsg
        /\ pre' = app
        /\ UNCHANGED <<inflight, eventChan, externalMsgs, env, hist>>

EdSetValue ==
    \E t \in EditorTexts :
        /\ app' = [app EXCEPT !.input = InputSetValue(@, t)]
        /\ ev' = Msg("EditorResultMsg", "", "", t)
        /\ pre' = app
        /\ UNCHANGED <<inflight, eventChan, externalMsgs, env, hist>>

EditorNext == EdKey \/ EdSetFocused \/ EdSetValue

SpecEditor == Init /\ [][EditorNext]_vars

-----------------------------------------------------------------------------
(* Properties of the input editor, checked under SpecEditor *)

\* the last step delivered key k to the focused editor, which was in Normal
\* mode with pending action p
EditorTook(k, p) ==
    /\ ev = KeyMsg(k)
    /\ pre.input.focused
    /\ pre.input.mode = ModeNormal
    /\ pre.input.pendingAction = p

\* C8: after any sequence of keystrokes delivered to the input editor the
\* cursor offset c satisfies 0 <= c <= len(buffer).
CursorInBounds ==
    /\ 0 <= app.input.pos
    /\ app.input.pos <= Len(app.input.value)

\* C8 witness: "a" (append) was pressed in Normal mode with the cursor already
\* at the end of a non-empty buffer, and the cursor is still at the end.
CursorAtEndAfterAppend ==
    /\ EditorTook("a", PendingNone)
    /\ pre.input.value # <<>>
    /\ pre.input.pos = Len(pre.input.value)
    /\ app.input.pos = Len(app.input.value)

\* where dw stops, said without the loops of the code: r ends the run of
\* non-spaces at or after p, q ends the run of spaces at or after r
WordSpanEnd(val, p) ==
    LET r == CHOOSE i \in p..Len(val) :
                 /\ i = Len(val) \/ val[i + 1] = SP
                 /\ \A j \in p..(i - 1) : val[j + 1] # SP
    IN CHOOSE i \in r..Len(val) :
           /\ i = Len(val) \/ val[i + 1] # SP
           /\ \A j \in r..(i - 1) : val[j + 1] = SP

HelloWorld == <<"h", "e", "l", "l", "o", SP, "w", "o", "r", "l", "d">>

\* C9: in Normal mode with the cursor at p, dw (and de) deletes exactly the
\* span [p, q), q being reached by skipping the non-space run at or after p and
\* then the spaces after it; the cursor stays at p and the text before p and
\* from q on is unchanged.  "hello world" with the cursor at 0 becomes "world"
\* with the cursor at 0.
DeleteWordSpan ==
    /\ \A k \in {"w", "e"} :
         EditorTook(k, PendingDelete) =>
           LET val == pre.input.value
               p == pre.input.pos
               q == WordSpanEnd(val, p)
           IN /\ app.input.value = Prefix(val, p) \o Suffix(val, q)
              /\ app.input.pos = p
              /\ app.input.mode = ModeNormal
    /\ \A k \in {"w", "e"} :
         LET m == [NewInputModel EXCEPT !.value = HelloWorld, !.focused = TRUE,
                                        !.mode = ModeNormal,
                                        !.pendingAction = PendingDelete]
             r == InputUpdate(m, KeyMsg(k)).m
         IN r.value = SubSeq(HelloWorld, 7, 11) /\ r.pos = 0

\* C9 witness: dw at the start of "a a" removed the word and the space after
\* it and left "a" with the cursor at 0.
DeletedFirstWord ==
    /\ EditorTook("w", PendingDelete)
    /\ pre.input.value = <<"a", SP, "a">>
    /\ pre.input.pos = 0
    /\ app.input.value = <<"a">>
    /\ app.input.pos = 0

\* C10: dd or cc in Normal mode on a non-empty buffer, with the cursor
\* anywhere, leaves buffer and Draft empty and the cursor at 0; after cc the
\* mode is Insert, after dd it is still Normal.
LineCommandsClear ==
    /\ (EditorTook("d", PendingDelete) /\ pre.input.value # <<>>) =>
          /\ app.input.value = <<>>
          /\ app.input.draftContent = <<>>
          /\ app.input.pos = 0
          /\ app.input.mode = ModeNormal
    /\ (EditorTook("c", PendingChange) /\ pre.input.value # <<>>) =>
          /\ app.input.value = <<>>
          /\ app.input.draftContent = <<>>
          /\ app.input.pos = 0
          /\ app.input.mode = ModeInsert

\* C10 witness: cc was typed with the cursor inside a buffer that mirrors a
\* Draft, and both are now empty.
ChangedWholeLine ==
    /\ EditorTook("c", PendingChange)
    /\ pre.input.value # <<>>
    /\ pre.input.draftContent # <<>>
    /\ pre.input.pos > 0
    /\ app.input.value = <<>>
    /\ app.input.mode = ModeInsert

PendingKinds == {PendingFindForward, PendingFindBackward, PendingChange, PendingDelete}

\* the keys that are an argument of pending action p
ValidArgument(p, k) ==
    CASE p = PendingDelete -> k \in {"w", "e", "$", "0", "d"}
      [] p = PendingChange -> k \in {"w", "e", "$", "0", "c"}
      [] OTHER -> k \in RuneKeys

\* C11: for each pending action kind (f, F, c, d) the next keystroke delivered
\* to the editor clears the pending action, whatever the key; when the key is
\* not a valid argument (d/c: not w, e, $, 0 or the same key; f/F: not a single
\* character) buffer, cursor, mode, Draft and the remembered last find are
\* unchanged.
NextKeyClearsPending ==
    \A p \in PendingKinds : \A k \in MotionKeys \cup FindKeys :
        EditorTook(k, p) =>
          /\ app.input.pendingAction = PendingNone
          /\ ~ValidArgument(p, k) =>
               /\ app.input.value = pre.input.value
               /\ app.input.pos = pre.input.pos
               /\ app.input.mode = pre.input.mode
               /\ app.input.draftContent = pre.input.draftContent
               /\ app.input.lastFindChar = pre.input.lastFindChar
               /\ app.input.lastFindDir = pre.input.lastFindDir

\* C11 witness: Tab arrived while F was pending, after an earlier find had
\* been remembered and with text in the buffer; the pending action is gone and
\* the remembered find is the earlier one.
TabAbortedFind ==
    /\ EditorTook("tab", PendingFindBackward)
    /\ pre.input.value # <<>>
    /\ pre.input.pos > 0
    /\ pre.input.lastFindChar # NoChar
    /\ app.input.pendingAction = PendingNone
    /\ app.input.lastFindChar = pre.input.lastFindChar

\* offsets of the occurrences of ch after (dir = 1) or before (dir = -1)
\* offset p of val
Occurrences(val, p, ch, dir) ==
    {i \in 0..(Len(val) - 1) : val[i + 1] = ch /\ (IF dir > 0 THEN i > p ELSE i < p)}

\* where a find for ch from p in direction dir leaves the cursor: on the
\* nearest occurrence, or at p when there is none
FindTarget(val, p, ch, dir) ==
    LET S == Occurrences(val, p, ch, dir)
    IN IF S = {} THEN p
       ELSE CHOOSE i \in S : \A j \in S : IF dir > 0 THEN i <= j ELSE i >= j

\* C13: f<ch> moves the cursor to the next occurrence of ch strictly after the
\* cursor and F<ch> to the previous occurrence strictly before it; without an
\* occurrence cursor and buffer are unchanged.  The find is remembered: ";"
\* repeats it in the same direction and "," in the opposite one, and a find
\* without a match leaves the remembered character and direction those of that
\* find.
FindMovesToOccurrence ==
    /\ \A ch \in FindKeys \cap RuneKeys :
         \A p \in {PendingFindForward, PendingFindBackward} :
           EditorTook(ch, p) =>
             LET dir == IF p = PendingFindForward THEN 1 ELSE -1
             IN /\ app.input.value = pre.input.value
                /\ app.input.pos = FindTarget(pre.input.value, pre.input.pos, ch, dir)
                /\ app.input.lastFindChar = ch
                /\ app.input.lastFindDir = dir
    /\ \A k \in {";", ","} :
         (EditorTook(k, PendingNone) /\ pre.input.lastFindChar # NoChar) =>
             LET dir == IF k = ";" THEN pre.input.lastFindDir ELSE -pre.input.lastFindDir
             IN /\ app.input.value = pre.input.value
                /\ app.input.pos = FindTarget(pre.input.value, pre.input.pos,
                                              pre.input.lastFindChar, dir)
                /\ app.input.lastFindChar = pre.input.lastFindChar
                /\ app.input.lastFindDir = pre.input.lastFindDir

-----------------------------------------------------------------------------
(* The panels under the keyboard alone: App.Update takes each key, with    *)
(* the App the key found remembered.                                       *)

PanelKeys == {"a", "d", "w", "esc", NextPanelKey, PrevPanelKey, "ctrl+@"}

PanelKeyPress ==
    \E k \in PanelKeys :
        /\ Room(app.input, k)
        /\ Consume(KeyMsg(k), inflight)
        /\ pre' = app
        /\ UNCHANGED <<eventChan, externalMsgs, env, hist>>

PanelsNext == PanelKeyPress

SpecPanels == Init /\ [][PanelsNext]_vars

-----------------------------------------------------------------------------
(* Properties of the panels, checked under SpecPanels *)

\* C12: whenever the input panel is in Normal mode with a pending action set,
\* any keystroke other than the expected argument aborts the pending action
\* (it becomes None), including the keys Update handles itself before the
\* editor sees them (Tab, Shift+Tab, the leader key).
AnyKeyAbortsPending ==
    (/\ ev.type = "KeyMsg"
     /\ pre.focusedPanel = PanelInput
     /\ pre.input.focused
     /\ pre.input.mode = ModeNormal
     /\ pre.input.pendingAction # PendingNone
     /\ ~ValidArgument(pre.input.pendingAction, ev.key))
    => app.input.pendingAction = PendingNone

\* C14: cycling the focus is a cyclic group of order 3 on the focused panel:
\* from every focus, three steps of +1 return to the original panel, and +1
\* followed by -1, or -1 followed by +1, returns to it; one or two steps of +1
\* do not.  Tab is a step of +1 and Shift+Tab a step of -1.
FocusCycleOrderThree ==
    /\ cycleFocus(cycleFocus(cycleFocus(app, 1), 1), 1).focusedPanel = app.focusedPanel
    /\ cycleFocus(cycleFocus(app, 1), -1).focusedPanel = app.focusedPanel
    /\ cycleFocus(cycleFocus(app, -1), 1).focusedPanel = app.focusedPanel
    /\ cycleFocus(app, 1).focusedPanel # app.focusedPanel
    /\ cycleFocus(cycleFocus(app, 1), 1).focusedPanel # app.focusedPanel
    /\ (ev = KeyMsg(NextPanelKey) /\ ~pre.leaderKeyPressed)
          => app.focusedPanel = (pre.focusedPanel + 1) % 3
    /\ (ev = KeyMsg(PrevPanelKey) /\ ~pre.leaderKeyPressed)
          => (app.focusedPanel + 1) % 3 = pre.focusedPanel

\* C14 witness: Tab on the last panel wrapped the focus around to the first.
TabWrappedAround ==
    /\ ev = KeyMsg(NextPanelKey)
    /\ pre.focusedPanel = PanelInput
    /\ app.focusedPanel = PanelContacts
    /\ app.contacts.focused

-----------------------------------------------------------------------------
(* Properties of send requests, checked under Spec *)

ServiceKinds == {"loadConversations", "loadMessages", "sendMessage"}

\* calls to the chat-protocol service that are running
ServiceCalls(bag) == Copies(bag, {c \in BagToSet(bag) : c.kind \in ServiceKinds})

SendCalls(bag) == Copies(bag, {c \in BagToSet(bag) : c.kind = "sendMessage"})

\* this step is Update consuming a send request while no conversation is active
RejectsSend ==
    /\ app.activeConversationID = ""
    /\ ev'.type = "SendMessageMsg"
    /\ SendRequests(inflight') < SendRequests(inflight)

\* C15: a send request processed while no conversation is active makes no
\* call to the chat-protocol service, sets the status to the
\* select-a-conversation message and leaves the sending indicator false; the
\* active conversation id stays empty.
RejectedSendCallsNothing ==
    [][RejectsSend =>
          /\ ServiceCalls(inflight') <= ServiceCalls(inflight)
          /\ app'.statusMsg = "Select a conversation first! (Enter in contacts)"
          /\ ~app'.input.sending
          /\ app'.activeConversationID = ""]_vars

\* what a rejected send request does keep to: it starts no send, sets the
\* status and clears the sending indicator, and the active conversation id
\* stays empty; a call to the service is started only by the contacts panel,
\* when it has the focus and a conversation under its cursor
RejectedSendSendsNothing ==
    [][RejectsSend =>
          /\ SendCalls(inflight') <= SendCalls(inflight)
          /\ ServiceCalls(inflight') > ServiceCalls(inflight)
                => (app.focusedPanel = PanelContacts
                    /\ SelectedConversation(app.contacts) # NoConv)
          /\ app'.statusMsg = "Select a conversation first! (Enter in contacts)"
          /\ ~app'.input.sending
          /\ app'.activeConversationID = ""]_vars

\* a send request was rejected while the contacts panel had the focus and a
\* conversation under its cursor, with no conversation active
SendRejectedOverContacts ==
    /\ ev.type = "SendMessageMsg"
    /\ app.activeConversationID = ""
    /\ app.statusMsg = "Select a conversation first! (Enter in contacts)"
    /\ ~app.input.sending
    /\ app.focusedPanel = PanelContacts
    /\ SelectedConversation(app.contacts) # NoConv

-----------------------------------------------------------------------------
(* The external editor: editor.go.  A session's temp file lives in         *)
(* env.files; tea.ExecProcess runs the editor from the event loop and      *)
(* calls the callback before its message is sent.                          *)

\* names os.CreateTemp gives out, never one twice
TempPaths == <<"compose-1.txt", "compose-2.txt", "compose-3.txt", "compose-4.txt">>

TempFile(path, content) == [path |-> path, content |-> content]

\* EditorResultMsg{Err: err}
EditorError == Msg("EditorResultMsg", "err", "", <<>>)

\* tea.ExecProcess(session.Command(), callback) for the session with tmpPath
ExecProcess(path) == Cmd("exec", Msg("", "", path, <<>>))

\* what the file system does to NewEditorSession: all calls succeed, CreateTemp
\* fails, or WriteString fails
SessionOutcomes == {"ok", "create", "write"}

\* NewEditorSession: the file system afterwards, the session's tmpPath and
\* whether an error was returned
NewEditorSession(e, initialContent, out) ==
    LET tmpPath == TempPaths[e.created + 1]
    IN CASE out = "create" -> [env |-> e, tmpPath |-> "", err |-> TRUE]
         [] out = "write" ->
              \* created, WriteString failed, closed and removed
              [env |-> [e EXCEPT !.created = @ + 1], tmpPath |-> "", err |-> TRUE]
         [] OTHER ->
              [env |-> [e EXCEPT !.created = @ + 1,
                                 !.files = @ \cup {TempFile(tmpPath, initialContent)}],
               tmpPath |-> tmpPath, err |-> FALSE]

\* StartEditorCmd, evaluated: the file system afterwards and the command
StartEditor(e, initialContent, out) ==
    LET s == NewEditorSession(e, initialContent, out)
    IN [env |-> s.env,
        cmd |-> IF s.err THEN Emit(EditorError) ELSE ExecProcess(s.tmpPath)]

\* a mutant of EditorCallback: the content is not trimmed
EditorCallbackNoTrim(exit, read, text) ==
    IF exit # "ok" THEN EditorError
    ELSE IF read # "ok" THEN EditorError
    ELSE IF text = <<>> THEN Msg("EditorCancelledMsg", "", "", <<>>)
    ELSE Msg("EditorResultMsg", "", "", text)

\* the callback of StartEditorCmd with ReadContent: exit is how the editor
\* process ended, read how os.ReadFile went, text what the file held
EditorCallback(exit, read, text) ==
    IF exit # "ok" THEN EditorError
    ELSE IF read # "ok" THEN EditorError
    ELSE IF TrimSpace(text) = <<>> THEN Msg("EditorCancelledMsg", "", "", <<>>)
    ELSE Msg("EditorResultMsg", "", "", TrimSpace(text))

\* a mutant of Cleanup: the temp file is left behind
CleanupKeep(files, path) == files

\* EditorSession.Cleanup: os.Remove(tmpPath)
Cleanup(files, path) == {f \in files : f.path # path}

\* what the user leaves in the file
EditorFiles == {<<SP, NL>>, <<"a", NL, "b">>, <<SP, "a", NL, "b", NL>>}

\* Update consumes OpenEditorMsg: StartEditorCmd creates the session inside
\* Update and returns the command
OpenEditorStep ==
    \E c \in BagToSet(inflight) : \E out \in SessionOutcomes :
        /\ c.kind = "emit" /\ c.msg.type = "OpenEditorMsg"
        /\ ~app.quit
        /\ out = "write" => c.msg.content # <<>>
        /\ out # "create" => env.created < MaxEditorRuns
        /\ app' = Update(app, c.msg).a
        /\ ev' = c.msg
        /\ inflight' = (inflight (-) One(c)) (+) One(StartEditor(env, c.msg.content, out).cmd)
        /\ env' = StartEditor(env, c.msg.content, out).env
        /\ UNCHANGED <<eventChan, externalMsgs>>

\* the event loop runs the editor on the session's file and then the
\* callback, whose deferred Cleanup removes the file before the message is sent
RunEditorStep ==
    \E c \in BagToSet(inflight) : \E f \in env.files :
        /\ c.kind = "exec" /\ f.path = c.msg.conv
        /\ \E exit \in {"ok", "fail"}, read \in {"ok", "fail"},
              text \in EditorFiles \cup {f.content} :
             /\ exit = "fail" => (read = "ok" /\ text = f.content)
             /\ read = "fail" => text = f.content
             /\ Finish(c, <<Emit(EditorCallback(exit, read, text))>>)
             /\ env' = [env EXCEPT !.files = Cleanup(@, f.path),
                                   !.run = [exit |-> exit, read |-> read,
                                            text |-> text]]
        /\ UNCHANGED <<app, eventChan, externalMsgs, ev>>

\* the keys of a user who composes in the external editor
ComposeKeys == {PrevPanelKey, "esc", "v", "enter", "a"}

ComposeKeyPress ==
    \E k \in ComposeKeys :
        /\ (app.input.mode = ModeInsert /\ k \in TypedKeys)
              => Len(app.input.value) < MaxTyped
        /\ Consume(KeyMsg(k), inflight)
        /\ UNCHANGED <<eventChan, externalMsgs, env, pre, hist>>

ComposeDeliver ==
    /\ DeliverStep
    /\ ev'.type # "OpenEditorMsg"
    /\ UNCHANGED <<pre, hist>>

OpenEditor == OpenEditorStep /\ UNCHANGED <<pre, hist>>

RunEditor == RunEditorStep /\ UNCHANGED <<pre, hist>>

ComposeNext == ComposeKeyPress \/ ComposeDeliver \/ OpenEditor \/ RunEditor

SpecCompose == Init /\ [][ComposeNext]_vars

-----------------------------------------------------------------------------
(* Properties of composing in the external editor, checked under           *)
(* SpecCompose                                                             *)

MultiLine(t) == \E i \in 1..Len(t) : t[i] = NL

SendRequest(content) == Emit(Msg("SendMessageMsg", "", "", content))

\* C16: an editor-result event carrying a multi-line text T, followed by Enter
\* in the input panel, emits a send request whose content is exactly T, not
\* the one-line preview shown in the buffer; afterwards Draft and buffer are
\* both empty.
EditorTextRoundTrip ==
    [][(/\ ev.type = "EditorResultMsg" /\ ev.key # "err" /\ MultiLine(ev.content)
        /\ ev' = KeyMsg("enter"))
       => /\ CopiesIn(SendRequest(ev.content), inflight')
                = CopiesIn(SendRequest(ev.content), inflight) + 1
          /\ SendRequests(inflight') = SendRequests(inflight) + 1
          /\ app'.input.draftContent = <<>>
          /\ app'.input.value = <<>>]_vars

\* C16 witness: Enter sent the two lines the editor returned while the buffer
\* showed their preview.
SentEditorText ==
    /\ ev = KeyMsg("enter")
    /\ InFlight(SendRequest(<<"a", NL, "b">>))
    /\ app.input.sending
    /\ app.input.draftContent = <<>>
    /\ app.input.value = <<>>

\* editor runs that have not called back yet
ExecCalls(bag) == Copies(bag, {c \in BagToSet(bag) : c.kind = "exec"})

\* editor events on their way to Update
EditorEvents(bag) ==
    Copies(bag, {c \in BagToSet(bag) :
                    c.kind = "emit"
                    /\ c.msg.type \in {"EditorResultMsg", "EditorCancelledMsg"}})

OpenRequests(bag) ==
    Copies(bag, {c \in BagToSet(bag) : c.kind = "emit" /\ c.msg.type = "OpenEditorMsg"})

\* this step puts one more msg on its way to Update
Raised(msg) == CopiesIn(Emit(msg), inflight') = CopiesIn(Emit(msg), inflight) + 1

\* C17: each external editor run produces exactly one event: editor-cancelled
\* when the subprocess succeeds and the file content is empty after trimming,
\* editor-result with the trimmed text when it is non-empty, editor-result
\* with an error when the subprocess or the file read fails; whitespace-only
\* content never gives an editor-result with content.  A request to open the
\* editor starts exactly one run or, when no session can be made, produces
\* exactly one editor-result with an error.
OneEventPerEditorRun ==
    [][/\ ExecCalls(inflight') < ExecCalls(inflight) =>
            /\ ExecCalls(inflight') = ExecCalls(inflight) - 1
            /\ EditorEvents(inflight') = EditorEvents(inflight) + 1
            /\ (env'.run.exit = "ok" /\ env'.run.read = "ok"
                  /\ TrimSpace(env'.run.text) = <<>>)
                 => Raised(Msg("EditorCancelledMsg", "", "", <<>>))
            /\ (env'.run.exit = "ok" /\ env'.run.read = "ok"
                  /\ TrimSpace(env'.run.text) # <<>>)
                 => Raised(Msg("EditorResultMsg", "", "", TrimSpace(env'.run.text)))
            /\ (env'.run.exit # "ok" \/ env'.run.read # "ok") => Raised(EditorError)
       /\ OpenRequests(inflight') < OpenRequests(inflight) =>
            ExecCalls(inflight') + EditorEvents(inflight')
               = ExecCalls(inflight) + EditorEvents(inflight) + 1]_vars

\* C17 witness: the editor exited normally leaving only white space in the
\* file, and the run's one event, editor-cancelled, is on its way.
WhitespaceRunCancelled ==
    /\ env.run = [exit |-> "ok", read |-> "ok", text |-> <<SP, NL>>]
    /\ InFlight(Emit(Msg("EditorCancelledMsg", "", "", <<>>)))
    /\ EditorEvents(inflight) = 1
    /\ ExecCalls(inflight) = 0

\* C18: on every exit path of an editor run (success, subprocess failure,
\* read failure, failure writing the initial content) the temp file no longer
\* exists when the resulting event is delivered: a temp file exists only for a
\* run that has not produced its event yet.
TempFileGoneWithEvent ==
    /\ \A f \in env.files :
         \E c \in BagToSet(inflight) : c.kind = "exec" /\ c.msg.conv = f.path
    /\ Cardinality(env.files) = ExecCalls(inflight)

\* C18 witness: the file read failed in an editor run that had created its
\* temp file; the error event is on its way and no temp file is left.
ReadFailedFileGone ==
    /\ env.run.exit = "ok"
    /\ env.run.read = "fail"
    /\ env.created > 0
    /\ InFlight(Emit(EditorError))
    /\ env.files = {}

-----------------------------------------------------------------------------
(* Properties of the sending indicator, checked under Spec *)

\* C19: from the moment Enter submits a message until that send's completion
\* or failure event is consumed, the sending indicator stays true; the result
\* of no other operation (a failed fetch or list, the completion of an earlier
\* send) clears it.
SendingUntilSendDone ==
    (Running /\ SendRequests(inflight) + Outstanding(inflight, "sendMessage") >= 1)
        => app.input.sending

-----------------------------------------------------------------------------
(* Properties of Enter in the input editor, checked under SpecEditor *)

\* the last step delivered Enter to the focused editor in Insert mode, or in
\* Normal mode with no pending action
EnterTaken ==
    /\ ev = KeyMsg("enter")
    /\ pre.input.focused
    /\ \/ pre.input.mode = ModeInsert
       \/ pre.input.mode = ModeNormal /\ pre.input.pendingAction = PendingNone

\* what Enter is to send: the Draft if it is non-empty after trimming, else
\* the buffer trimmed
ToSend(m) ==
    IF TrimSpace(m.draftContent) # <<>> THEN m.draftContent ELSE TrimSpace(Bytes(m.value))

\* C20: Enter in Insert mode, or in Normal mode with no pending action, emits
\* exactly one send request whose content is the Draft if that is non-empty
\* after trimming and else the buffer trimmed, and then clears both; when both
\* are empty or whitespace-only no request is emitted and buffer, Draft, mode
\* and sending indicator are unchanged.
EnterSendsDraftOrBuffer ==
    EnterTaken =>
        IF ToSend(pre.input) # <<>>
        THEN /\ InputUpdate(pre.input, ev).cmd = SendRequest(ToSend(pre.input))
             /\ app.input.value = <<>>
             /\ app.input.draftContent = <<>>
        ELSE /\ InputUpdate(pre.input, ev).cmd = NilCmd
             /\ app.input.value = pre.input.value
             /\ app.input.draftContent = pre.input.draftContent
             /\ app.input.mode = pre.input.mode
             /\ app.input.sending = pre.input.sending

\* C20 witness: Enter in Normal mode sent the buffer " a" as "a" and left the
\* buffer empty.
EnterSentTrimmedBuffer ==
    /\ EditorTook("enter", PendingNone)
    /\ pre.input.draftContent = <<>>
    /\ pre.input.value = <<SP, "a">>
    /\ InputUpdate(pre.input, ev).cmd = SendRequest(<<"a">>)
    /\ app.input.value = <<>>
    /\ app.input.sending

\* ---------------------------------------------------------------------------
\* The lifecycle of a session: start-up of main.initializeClient, the refresh
\* chord pressed before the client is there, and errors of the client feed.

\* commands and messages in flight during start-up
MaxPending == 5

\* the leader key and the refresh key of the leader chord
LifeKeys == {"ctrl+@", "r"}

\* a message pushed by SetQRCode, SetConnected or SetError
External(msg) ==
    \/ msg.type \in {"qrCodeMsg", "connectedMsg"}
    \/ msg.type = "errorMsg" /\ msg.key = "external"

\* the loop takes msg; r is what Update returned for it
LifeTake(r, msg, rest) ==
    /\ ~app.quit
    /\ BagCardinality(rest (+) SeqToBag(r.cmds)) <= MaxPending
    /\ app' = r.a
    /\ inflight' = rest (+) SeqToBag(r.cmds)
    /\ ev' = msg
    /\ pre' = app

LifeKeyPress ==
    \E k \in LifeKeys :
        /\ LifeTake(Update(app, KeyMsg(k)), KeyMsg(k), inflight)
        /\ UNCHANGED <<eventChan, externalMsgs, env, hist>>

\* hist keeps the pushed messages in the order Update processed them
LifeDeliver ==
    \E c \in BagToSet(inflight) :
        /\ c.kind = "emit"
        /\ c.msg.type # "QuitMsg"
        /\ LifeTake(Update(app, c.msg), c.msg, inflight (-) One(c))
        /\ hist' = IF External(c.msg) THEN <<hist[2], hist[3], c.msg.type>> ELSE hist
        /\ UNCHANGED <<eventChan, externalMsgs, env>>

\* Client.handleEvent on ListenFatalError or ListenTemporaryError
ClientErrorStep ==
    /\ env.clientSet
    /\ env.pushed < MaxEvents
    /\ eventChan' = Append(eventChan, Msg("Event", "Error", "", <<>>))
    /\ env' = [env EXCEPT !.pushed = @ + 1]
    /\ UNCHANGED <<app, inflight, externalMsgs, ev>>

ClientError == ClientErrorStep /\ UNCHANGED <<pre, hist>>

LifeNext ==
    \/ LifeKeyPress
    \/ LifeDeliver
    \/ ListenEvents
    \/ ListenExternal
    \/ RunLoadConversations
    \/ RunLoadMessages
    \/ ClientError
    \/ InitRestore
    \/ InitQR
    \/ InitPaired
    \/ InitFail

SpecLifecycle == Init /\ [][LifeNext]_vars

\* C21: the events pushed by SetQRCode, SetConnected and SetError are processed
\* in the order they were pushed: the QR code, pushed before the connection
\* or the error, is never processed after it
ExternalEventsInOrder ==
    \A i \in 1..3 : \A j \in 1..3 :
        (i < j /\ hist[i] \in {"connectedMsg", "errorMsg"}) => hist[j] # "qrCodeMsg"

\* C22: the lifecycle state only moves forward: once Connected it stays
\* Connected, once Errored it stays Errored, and it never returns to Loading
LifecycleForward ==
    /\ pre.state = StateConnected => app.state = StateConnected
    /\ pre.state = StateError => app.state = StateError
    /\ pre.state = StateQRPairing => app.state # StateLoading

\* an error reaches Update as a session error event or on the client feed
ErrorEvent(msg) == msg.type = "errorMsg" \/ (msg.type = "Event" /\ msg.key = "Error")

\* C23: an error event moves the lifecycle to Errored exactly when the state
\* is not Connected, by whichever path it arrives; while Connected it changes
\* only the status line, the stored error and the sending indicator
ErrorMovesToErrored ==
    ErrorEvent(ev) =>
        IF pre.state # StateConnected
        THEN app.state = StateError
        ELSE app = [pre EXCEPT !.statusMsg = app.statusMsg, !.err = app.err,
                               !.input.sending = app.input.sending]

\* ---------------------------------------------------------------------------
\* Sending while the user goes on: the send requests dispatched and the calls
\* the goroutines of sendMessage make.

\* the keys pressed around a send: panels, a rune, the next conversation
SendKeys == {"tab", "enter", "a", "j"}

\* Client.SendMessage(a.ctx, convID, content) as the closure returned by
\* sendMessage calls it: convID and content are the values it captured
SendCallLate(c) == Msg("call", "SendMessage", app.activeConversationID, c.msg.content)

SendCall(c) == Msg("call", "SendMessage", c.msg.conv, c.msg.content)

\* the state after construction; hist lists the send requests dispatched and
\* not yet run, as (conversation, content) at the time of the dispatch
SendInit ==
    /\ app = NewApp
    /\ inflight = SeqToBag(<<ListenForEvents, ListenForExternalMsgs>>)
    /\ eventChan = <<>>
    /\ externalMsgs = <<>>
    /\ env = [init |-> "start", clientSet |-> FALSE, pushed |-> 0,
              files |-> {}, created |-> 0, run |-> NoRun]
    /\ ev = NoMsg
    /\ pre = NewApp
    /\ hist = <<>>

SendKeyPress ==
    \E k \in SendKeys :
        /\ (app.focusedPanel = PanelInput /\ k \in RuneKeys) => Len(app.input.value) < MaxTyped
        /\ LifeTake(Update(app, KeyMsg(k)), KeyMsg(k), inflight)
        /\ UNCHANGED <<eventChan, externalMsgs, env, hist>>

SendDeliver ==
    \E c \in BagToSet(inflight) :
        /\ c.kind = "emit"
        /\ c.msg.type # "QuitMsg"
        /\ LifeTake(Update(app, c.msg), c.msg, inflight (-) One(c))
        /\ hist' = IF c.msg.type = "SendMessageMsg" /\ app.activeConversationID # ""
                   THEN Append(hist, [conv |-> app.activeConversationID,
                                      content |-> c.msg.content])
                   ELSE hist
        /\ UNCHANGED <<eventChan, externalMsgs, env>>

\* hist without its first entry equal to r
Without(h, r) ==
    LET at == {i \in 1..Len(h) : h[i] = r}
    IN IF at = {} THEN h
       ELSE LET i == CHOOSE i \in at : \A j \in at : i <= j
            IN SubSeq(h, 1, i - 1) \o SubSeq(h, i + 1, Len(h))

\* the goroutine of sendMessage makes its call; ev shows the call
SendRun ==
    \E c \in BagToSet(inflight) :
        /\ c.kind = "sendMessage"
        /\ \E ok \in BOOLEAN :
             /\ ok = env.clientSet \/ (~ok /\ "sendMessage" \in FailingCalls)
             /\ Finish(c, <<Emit(IF ok THEN Msg("messageSentMsg", "", "", <<>>)
                                      ELSE ErrorMsg("send", c.msg))>>)
        /\ ev' = SendCall(c)
        /\ hist' = Without(hist, [conv |-> ev'.conv, content |-> ev'.content])
        /\ UNCHANGED <<app, eventChan, externalMsgs, env, pre>>

SendRestore == InitRestoreStep /\ UNCHANGED <<pre, hist>>

SendNext ==
    \/ SendKeyPress
    \/ SendDeliver
    \/ ListenExternal
    \/ RunLoadConversations
    \/ RunLoadMessages
    \/ SendRun
    \/ SendRestore

SpecSend == SendInit /\ [][SendNext]_vars

\* C24: the call a send makes has the conversation and the content of a
\* request as they were when it was dispatched, whatever the active
\* conversation and the buffer are when the goroutine runs
SendCallsDispatchValues ==
    [][(\E c \in BagToSet(inflight) :
            c.kind = "sendMessage" /\ CopiesIn(c, inflight') < CopiesIn(c, inflight)) =>
          /\ ev'.type = "call"
          /\ \E i \in 1..Len(hist) :
                 hist[i] = [conv |-> ev'.conv, content |-> ev'.content]]_vars

\* a send called the service for a conversation that is no longer the active one
SentToEarlierConversation ==
    /\ ev.type = "call"
    /\ app.activeConversationID \notin {"", ev.conv}

\* ---------------------------------------------------------------------------
\* Quitting: the quit keys pressed on every panel, with and without text in
\* the input.

QuitKeys == {QuitKey, "ctrl+c", "a", "esc", NextPanelKey, "ctrl+@"}

QuitKeyPress ==
    \E k \in QuitKeys :
        /\ Room(app.input, k)
        /\ Consume(KeyMsg(k), inflight)
        /\ UNCHANGED <<eventChan, externalMsgs, env, pre, hist>>

QuitNext == QuitKeyPress \/ Deliver

SpecQuit == Init /\ [][QuitNext]_vars

\* Update takes q or Ctrl+C while no leader chord is pending
QuitKeyTaken == ev'.type = "KeyMsg" /\ ev'.key \in {QuitKey, "ctrl+c"} /\ ~app.leaderKeyPressed

\* the context is cancelled and tea.Quit is returned
Quits == app'.cancelled /\ CopiesIn(QuitCmd, inflight') = CopiesIn(QuitCmd, inflight) + 1

\* the input panel is focused and holds text
Composing == app.focusedPanel = PanelInput /\ Value(app.input) # <<>>

EditorEventTaken == EditorEvents(inflight') < EditorEvents(inflight)

\* send requests and sends in flight
Sends(bag) == SendRequests(bag) + SendCalls(bag)

LeaderEscapeOnlyClears ==
    [][(pre' = app /\ ev' = KeyMsg("esc") /\ app.leaderKeyPressed) =>
          /\ app' = [app EXCEPT !.leaderKeyPressed = FALSE, !.statusMsg = ""]
          /\ inflight' = inflight]_vars

\* the chord was cancelled over the input panel, which is still in Insert mode
LeaderEscapedInInsert ==
    /\ ev = KeyMsg("esc")
    /\ pre.leaderKeyPressed /\ ~app.leaderKeyPressed
    /\ pre.statusMsg = "-- LEADER --" /\ app.statusMsg = ""
    /\ app.focusedPanel = PanelInput
    /\ app.input.focused /\ app.input.mode = ModeInsert

\* ---------------------------------------------------------------------------
\* The local cache (store.Store) and the threads that write it.

ConvIDs == {ServerConversations[i].ID : i \in 1..Len(ServerConversations)}

\* store.New: no conversations, no messages
NewStore == [conversations |-> {}, messages |-> [c \in ConvIDs |-> 0], unread |-> {}]

\* Store.SetConversations: the map is rebuilt from the list
StoreSetConversations(s, ids) == [s EXCEPT !.conversations = ids, !.unread = {}]

\* Store.SetMessages
StoreSetMessages(s, id, n) == [s EXCEPT !.messages[id] = n]

\* Store.AddMessage: append, and mark the conversation unread if it is cached
StoreAddMessage(s, id) ==
    [s EXCEPT !.messages[id] = @ + 1,
              !.unread = IF id \in s.conversations THEN @ \cup {id} ELSE @]

\* the state after construction; hist holds the cache and the thread that
\* wrote it last
StoreInit ==
    /\ app = NewApp
    /\ inflight = SeqToBag(<<ListenForEvents, ListenForExternalMsgs>>)
    /\ eventChan = <<>>
    /\ externalMsgs = <<>>
    /\ env = [init |-> "start", clientSet |-> FALSE, pushed |-> 0,
              files |-> {}, created |-> 0, run |-> NoRun]
    /\ ev = NoMsg
    /\ pre = NewApp
    /\ hist = [store |-> NewStore, writer |-> "none"]

\* Client.ListConversations in the goroutine of loadConversations
StoreList ==
    \E ok \in BOOLEAN :
        /\ ListConversationsRun(ok)
        /\ hist' = IF ok
                   THEN [store |-> StoreSetConversations(hist.store, ConvIDs),
                         writer |-> "loadConversations"]
                   ELSE hist
        /\ UNCHANGED pre

\* Client.GetMessages in the goroutine of loadMessages
StoreFetch ==
    \E c \in BagToSet(inflight) : \E ok \in BOOLEAN :
        /\ GetMessagesRun(c, ok)
        /\ hist' = IF ok
                   THEN [store |-> StoreSetMessages(hist.store, c.msg.conv,
                                                    Len(ServerMessages)),
                         writer |-> "loadMessages"]
                   ELSE hist
        /\ UNCHANGED pre

\* Client.handleEvent in the goroutine of the protocol library
StorePush ==
    \E e \in ClientEvents :
        /\ handleEvent(e)
        /\ hist' = IF e.key = "NewMessage"
                   THEN [store |-> StoreAddMessage(hist.store, e.conv),
                         writer |-> "handleEvent"]
                   ELSE hist
        /\ UNCHANGED pre

\* the session loop: Update never calls the store
StoreKeyPress == KeyStep("enter") /\ UNCHANGED <<pre, hist>>

StoreNext ==
    \/ StoreKeyPress
    \/ Deliver
    \/ ListenEvents
    \/ ListenExternal
    \/ StoreList
    \/ StoreFetch
    \/ StorePush
    \/ InitRestore

SpecStore == StoreInit /\ [][StoreNext]_vars

\* C28: the local conversation and message cache is written by the thread of
\* the session loop only: no goroutine of a list or fetch and no callback of
\* the protocol library writes it
CacheWrittenByLoopOnly == hist.writer \in {"none", "Update"}

\* Normal-mode keys that move the cursor, delete, or start or repeat a find
StayNormalKeys == {"h", "l", "w", "b", "e", "0", "$", "x", "D", "f", "F", ";", ","}

\* C29: the mode of the input editor changes only as follows.  Cursor
\* motions, x, D, finds and d-motions never change it.  Escape in Insert mode
\* gives Normal with buffer and cursor unchanged.  In Normal mode with no
\* pending action i, a, A and I give Insert with the cursor at the current
\* position, one past it (clamped to the end), the end and the start.  A
\* completed c-motion (cw, ce, c$, c0, cc) gives Insert.  When the input panel
\* gains focus the mode is Insert.
ModeChangesOnlyByCommand ==
    /\ \A k \in StayNormalKeys :
         EditorTook(k, PendingNone) => app.input.mode = ModeNormal
    /\ \A k \in FindKeys : \A p \in {PendingFindForward, PendingFindBackward} :
         EditorTook(k, p) => app.input.mode = ModeNormal
    /\ \A k \in MotionKeys :
         EditorTook(k, PendingDelete) => app.input.mode = ModeNormal
    /\ (ev = KeyMsg("esc") /\ pre.input.focused /\ pre.input.mode = ModeInsert) =>
         /\ app.input.mode = ModeNormal
         /\ app.input.value = pre.input.value
         /\ app.input.pos = pre.input.pos
    /\ \A k \in {"i", "a", "A", "I"} :
         EditorTook(k, PendingNone) =>
           /\ app.input.mode = ModeInsert
           /\ app.input.value = pre.input.value
           /\ app.input.pos =
                CASE k = "i" -> pre.input.pos
                  [] k = "a" -> Min(pre.input.pos + 1, Len(pre.input.value))
                  [] k = "A" -> Len(pre.input.value)
                  [] k = "I" -> 0
    /\ \A k \in {"w", "e", "$", "0", "c"} :
         EditorTook(k, PendingChange) => app.input.mode = ModeInsert
    /\ (ev = NoMsg /\ ~pre.input.focused /\ app.input.focused) =>
         app.input.mode = ModeInsert

\* Escape left Insert mode with the cursor inside the text, and the cursor
\* and the text are where they were
EscapeKeptCursor ==
    /\ ev = KeyMsg("esc")
    /\ pre.input.focused /\ pre.input.mode = ModeInsert
    /\ pre.input.pos > 0 /\ pre.input.pos < Len(pre.input.value)
    /\ app.input.mode = ModeNormal
    /\ app.input.pos = pre.input.pos
    /\ app.input.value = pre.input.value

\* Update consumes a message-sent event in this step
SentTaken ==
    /\ ev'.type = "messageSentMsg"
    /\ CopiesIn(Emit(ev'), inflight') < CopiesIn(Emit(ev'), inflight)

\* fetches of conversation id in flight
Fetches(bag, id) == CopiesIn(LoadMessages(id), bag)

\* C30: when a message-sent event is consumed the status becomes the sent
\* message, sending is false, and exactly one re-fetch of the active
\* conversation is dispatched
SentRefetchesActiveOnce ==
    [][SentTaken =>
          /\ app'.statusMsg = "Message sent"
          /\ ~app'.input.sending
          /\ Fetches(inflight', app.activeConversationID)
                = Fetches(inflight, app.activeConversationID) + 1]_vars

\* ---------------------------------------------------------------------------
\* Pairing: the callbacks of AuthHandler and the loop of main.initializeClient.

\* events the protocol library reports while pairing
MaxPairEvents == 4

\* capacity of qrChan and of errChan (NewAuthHandler)
PairChanCap == 1

\* NewAuthHandler, with the place of initializeClient (main), the connection
\* of the protocol client (gm) and what the callbacks have seen so far
NewAuth ==
    [pairSuccessful |-> FALSE, clientReady |-> FALSE, doneClosed |-> FALSE,
     closes |-> 0, qrChan |-> 0, errChan |-> 0,
     main |-> "start", gm |-> "none",
     events |-> 0, saving |-> 0, saved |-> FALSE, saveFailed |-> FALSE,
     ready |-> FALSE]

PairInit ==
    /\ app = NewApp
    /\ inflight = SeqToBag(<<ListenForEvents, ListenForExternalMsgs>>)
    /\ eventChan = <<>>
    /\ externalMsgs = <<>>
    /\ env = [init |-> "start", clientSet |-> FALSE, pushed |-> 0,
              files |-> {}, created |-> 0, run |-> NoRun]
    /\ ev = NoMsg
    /\ pre = NewApp
    /\ hist = NewAuth

\* a mutant of checkAndSignalDone: done is closed without looking at doneClosed
checkAndSignalDoneAgain(a) ==
    IF a.pairSuccessful /\ a.clientReady
    THEN [a EXCEPT !.doneClosed = TRUE, !.closes = @ + 1]
    ELSE a

\* AuthHandler.checkAndSignalDone, called with the mutex held
checkAndSignalDone(a) ==
    IF a.pairSuccessful /\ a.clientReady /\ ~a.doneClosed
    THEN [a EXCEPT !.doneClosed = TRUE, !.closes = @ + 1]
    ELSE a

\* the library calls handlePairingEvent while the handler is installed
PairEvent == hist.main \in {"loop", "closing", "returned"} /\ hist.events < MaxPairEvents

PairRest == UNCHANGED <<app, inflight, eventChan, env, ev, pre>>

\* events.QR: the code goes to qrChan, the send waits for room
PairQR ==
    /\ PairEvent
    /\ hist.qrChan < PairChanCap
    /\ hist' = [hist EXCEPT !.qrChan = @ + 1, !.events = @ + 1]
    /\ UNCHANGED externalMsgs /\ PairRest

\* events.PairSuccessful, up to the mutex: the session is saved or the error
\* goes to errChan
PairSave ==
    /\ PairEvent
    /\ \/ hist' = [hist EXCEPT !.saving = @ + 1, !.saved = TRUE, !.events = @ + 1]
       \/ /\ hist.errChan < PairChanCap
          /\ hist' = [hist EXCEPT !.errChan = @ + 1, !.saveFailed = TRUE,
                                  !.events = @ + 1]
    /\ UNCHANGED externalMsgs /\ PairRest

\* events.PairSuccessful with the mutex held
PairSucceeded ==
    /\ hist.saving > 0
    /\ hist' = checkAndSignalDone([hist EXCEPT !.saving = @ - 1,
                                               !.pairSuccessful = TRUE])
    /\ UNCHANGED externalMsgs /\ PairRest

\* events.ClientReady or events.ListenRecovered
PairReady ==
    /\ PairEvent
    /\ hist' = checkAndSignalDone([hist EXCEPT !.clientReady = TRUE, !.ready = TRUE,
                                               !.events = @ + 1])
    /\ UNCHANGED externalMsgs /\ PairRest

\* events.ListenFatalError
PairFatal ==
    /\ PairEvent
    /\ hist.errChan < PairChanCap
    /\ hist' = [hist EXCEPT !.errChan = @ + 1, !.events = @ + 1]
    /\ UNCHANGED externalMsgs /\ PairRest

\* initializeClient: RestoreSession gave a connected client
MainRestore ==
    /\ hist.main = "start"
    /\ hist' = [hist EXCEPT !.main = "closing", !.gm = "connected"]
    /\ externalMsgs' = Append(externalMsgs, Msg("connectedMsg", "", "", <<>>))
    /\ PairRest

\* initializeClient: no session; StartPairing installs the handler and sends
\* the first code
MainStartPairing ==
    /\ hist.main = "start"
    /\ hist' = [hist EXCEPT !.main = "loop", !.qrChan = @ + 1]
    /\ UNCHANGED externalMsgs /\ PairRest

\* the select of initializeClient: a code, an error, or done
MainSelect ==
    /\ hist.main = "loop"
    /\ \/ /\ hist.qrChan > 0
          /\ hist' = [hist EXCEPT !.qrChan = @ - 1]
          /\ externalMsgs' = Append(externalMsgs, Msg("qrCodeMsg", "", "", <<>>))
       \/ /\ hist.errChan > 0
          /\ hist' = [hist EXCEPT !.errChan = @ - 1, !.main = "failing"]
          /\ UNCHANGED externalMsgs
       \/ /\ hist.closes > 0
          /\ \/ /\ hist' = [hist EXCEPT !.main = "closing", !.gm = "connected"]
                /\ externalMsgs' = Append(externalMsgs,
                                          Msg("connectedMsg", "", "", <<>>))
             \/ /\ hist' = [hist EXCEPT !.main = "failing"]
                /\ UNCHANGED externalMsgs
    /\ PairRest

\* the deferred auth.Close as initializeClient returns, and main's SetError
\* when it returned an error
MainClose ==
    /\ hist.main \in {"closing", "failing"}
    /\ hist' = [hist EXCEPT !.main = "returned",
                            !.gm = IF hist.main = "failing" /\ @ = "none"
                                   THEN @ ELSE "disconnected"]
    /\ externalMsgs' = IF hist.main = "failing"
                       THEN Append(externalMsgs, ErrorMsg("external", NoMsg))
                       ELSE externalMsgs
    /\ PairRest

PairNext ==
    \/ PairQR
    \/ PairSave
    \/ PairSucceeded
    \/ PairReady
    \/ PairFatal
    \/ MainRestore
    \/ MainStartPairing
    \/ MainSelect
    \/ MainClose

SpecPairing == PairInit /\ [][PairNext]_vars

\* C31: during pairing done is raised exactly once, and only after both a
\* pairing whose session was saved and a ready event have been observed, in
\* either order; with only one of the two, or when saving failed, it is not
\* raised
DoneRaisedOnceAfterBoth ==
    /\ hist.closes <= 1
    /\ hist.closes = 1 <=> (hist.pairSuccessful /\ hist.clientReady)
    /\ hist.pairSuccessful => hist.saved
    /\ hist.clientReady <=> hist.ready
    /\ (hist.saveFailed /\ ~hist.saved) => hist.closes = 0

\* done was raised by the ready event that came after the pairing, and more
\* events of both kinds followed
DoneRaisedReadyLast ==
    /\ hist.closes = 1
    /\ hist.saved /\ hist.ready /\ hist.saveFailed
    /\ hist.events = MaxPairEvents

\* every character of val takes one byte
SingleByte(val) == \A i \in 1..Len(val) : val[i] # Wide

DraftKeptByInlineEdits ==
    pre.input.draftContent # <<>> =>
      /\ app.input.draftContent # pre.input.draftContent
           => \/ EditorTook("d", PendingDelete)
              \/ EditorTook("c", PendingChange)
              \/ EnterTaken
              \/ ev.type = "EditorResultMsg"
      /\ pre.input.draftContent \in EditorTexts
      /\ EnterTaken =>
           /\ InputUpdate(pre.input, ev).cmd = SendRequest(pre.input.draftContent)
           /\ app.input.draftContent = <<>>

\* Enter sent the text of the editor although the buffer had been edited to
\* something else
EnterSentDraftNotBuffer ==
    /\ EnterTaken
    /\ pre.input.draftContent = <<"a", SP, "a">>
    /\ Bytes(pre.input.value) # pre.input.draftContent
    /\ pre.input.value # <<>>
    /\ app.input.draftContent = <<>>
    /\ app.input.sending

\* ---------------------------------------------------------------------------
\* Quiescence: a restored session whose user only changes panel or opens a
\* conversation, with every goroutine and the loop scheduled fairly.

QuietKeys == {"tab", "enter", "j", "a"}

QuietKeyPress == \E k \in QuietKeys : KeyStep(k) /\ UNCHANGED <<pre, hist>>

QuietNext ==
    \/ QuietKeyPress
    \/ Deliver
    \/ ListenExternal
    \/ RunLoadConversations
    \/ RunLoadMessages
    \/ InitRestore

\* a command that can finish does finish, and a message returned is consumed
SpecQuiet ==
    /\ Init /\ [][QuietNext]_vars
    /\ WF_vars(Deliver) /\ WF_vars(ListenExternal)
    /\ WF_vars(RunLoadConversations) /\ WF_vars(RunLoadMessages)
    /\ WF_vars(InitRestore)

\* no call to the service is running and no result waits for Update
Quiet ==
    /\ ServiceCalls(inflight) = 0
    /\ \A c \in BagToSet(inflight) : c.kind # "emit"

\* Update consumes the result of a fetch in this step
FetchResultTaken ==
    /\ ev'.type = "messagesLoadedMsg"
    /\ CopiesIn(Emit(ev'), inflight') < CopiesIn(Emit(ev'), inflight)

\* C34: once the session is connected with conversations in the list, and the
\* user presses no further key, eventually no background operation is in
\* flight and none is dispatched any more; consuming the result of a fetch
\* never dispatches another fetch
QuiescentWithoutKeys ==
    /\ [][FetchResultTaken => ServiceCalls(inflight') <= ServiceCalls(inflight)]_vars
    /\ ([]<><<QuietKeyPress>>_vars) \/ <>[]Quiet

\* SetConnected has been called: the connectedMsg is on its way to the loop
ConnectedSignalled ==
    \E i \in 1..Len(externalMsgs) : externalMsgs[i].type = "connectedMsg"

\* C35: once initialization has signalled Connected, the protocol client it
\* handed over with SetClient is still connected; the initialization code does
\* not disconnect it afterwards, on the restore path and on the pairing path
ClientKeptAfterConnected ==
    ConnectedSignalled => hist.gm = "connected"

\* a send request reached sendMessage and a call of the service was dispatched
SendDispatched ==
    /\ ev'.type = "SendMessageMsg"
    /\ SendCalls(inflight') > SendCalls(inflight)

\* C36: the active conversation and the conversation of the messages panel
\* never differ, so that whenever a send is dispatched its target is the
\* conversation the messages panel displays
SendTargetsDisplayed ==
    /\ [](app.activeConversationID = app.messages.conversationID)
    /\ [][SendDispatched =>
            app'.activeConversationID = app'.messages.conversationID]_vars

\* ---------------------------------------------------------------------------
\* Fetches of two conversations: the user walks the contacts list and leaves
\* it while the fetches are out; hist.last holds the conversations of the
\* fetches the latest dispatching Update returned.

FetchKeys == {"enter", "j", "tab"}

FetchInit ==
    /\ app = NewApp
    /\ inflight = SeqToBag(<<ListenForEvents, ListenForExternalMsgs>>)
    /\ eventChan = <<>>
    /\ externalMsgs = <<>>
    /\ env = [init |-> "start", clientSet |-> FALSE, pushed |-> 0,
              files |-> {}, created |-> 0, run |-> NoRun]
    /\ ev = NoMsg
    /\ pre = NewApp
    /\ hist = [last |-> {}]

\* the conversations whose fetches this Update added to what was left in flight
FetchLog(rest) ==
    LET new == {id \in ConvIDs : Fetches(inflight', id) > Fetches(rest, id)}
    IN hist' = IF new = {} THEN hist ELSE [last |-> new]

FetchKeyPress ==
    \E k \in FetchKeys :
        /\ (app.focusedPanel = PanelInput /\ k \in RuneKeys) => Len(app.input.value) < MaxTyped
        /\ LifeTake(Update(app, KeyMsg(k)), KeyMsg(k), inflight)
        /\ FetchLog(inflight)
        /\ UNCHANGED <<eventChan, externalMsgs, env>>

FetchDeliver ==
    \E c \in BagToSet(inflight) :
        /\ c.kind = "emit"
        /\ c.msg.type # "QuitMsg"
        /\ LifeTake(Update(app, c.msg), c.msg, inflight (-) One(c))
        /\ FetchLog(inflight (-) One(c))
        /\ UNCHANGED <<eventChan, externalMsgs, env>>

FetchRestore == InitRestoreStep /\ UNCHANGED <<pre, hist>>

FetchNext ==
    \/ FetchKeyPress
    \/ FetchDeliver
    \/ ListenExternal
    \/ RunLoadConversations
    \/ RunLoadMessages
    \/ FetchRestore

SpecFetch == FetchInit /\ [][FetchNext]_vars

\* no fetch is running and no fetch result waits for Update
FetchesDone ==
    \A c \in BagToSet(inflight) :
        /\ c.kind # "loadMessages"
        /\ c.kind = "emit" => c.msg.type # "messagesLoadedMsg"

\* this step is Update consuming the result of a fetch that is not the latest
\* dispatched
StaleResultTaken ==
    /\ ev'.type = "messagesLoadedMsg"
    /\ CopiesIn(Emit(ev'), inflight') < CopiesIn(Emit(ev'), inflight)
    /\ hist.last # {}
    /\ ev'.conv \notin hist.last

\* C37: of two fetches for different conversations, once both results are
\* consumed the messages panel shows the conversation of the fetch dispatched
\* later, in whatever order the results arrive; a stale result does not
\* overwrite the panel
LaterFetchShown ==
    /\ []((FetchesDone /\ hist.last # {}) => app.messages.conversationID \in hist.last)
    /\ [][StaleResultTaken =>
            app'.messages.conversationID = app.messages.conversationID]_vars

\* ---------------------------------------------------------------------------
\* The client's event feed with its capacity: a callback of the protocol
\* library stands at its channel send until the feed has room.

\* the capacity of Client.eventChan (NewClient)
EventChanCap == 100

\* the event the library reports during this run
FeedEvent == Msg("Event", "ConversationsUpdated", "", <<>>)

\* hist.sending: a callback has reached `c.eventChan <- Event{...}`
FeedInit ==
    /\ app = NewApp
    /\ inflight = SeqToBag(<<ListenForEvents, ListenForExternalMsgs>>)
    /\ eventChan = <<>>
    /\ externalMsgs = <<>>
    /\ env = [init |-> "start", clientSet |-> FALSE, pushed |-> 0,
              files |-> {}, created |-> 0, run |-> NoRun]
    /\ ev = NoMsg
    /\ pre = NewApp
    /\ hist = [sending |-> FALSE]

\* the library calls Client.handleEvent, which arrives at its send
FeedCall ==
    /\ env.clientSet
    /\ ~hist.sending
    /\ hist' = [sending |-> TRUE]
    /\ UNCHANGED <<app, inflight, eventChan, externalMsgs, env, ev, pre>>

\* the send on the buffered channel goes through once there is room
FeedSend ==
    /\ hist.sending
    /\ Len(eventChan) < EventChanCap
    /\ eventChan' = Append(eventChan, FeedEvent)
    /\ hist' = [sending |-> FALSE]
    /\ UNCHANGED <<app, inflight, externalMsgs, env, ev, pre>>

FeedNext ==
    \/ FeedCall
    \/ FeedSend
    \/ Deliver
    \/ ListenEvents
    \/ ListenExternal
    \/ RunLoadConversations
    \/ RunLoadMessages
    \/ InitRestore

\* the loop, the goroutines of the commands and the blocked sender are
\* scheduled; the library calls when it pleases
SpecFeed ==
    /\ FeedInit /\ [][FeedNext]_vars
    /\ WF_vars(FeedSend) /\ WF_vars(Deliver) /\ WF_vars(ListenEvents)
    /\ WF_vars(ListenExternal) /\ WF_vars(RunLoadConversations)
    /\ WF_vars(RunLoadMessages) /\ WF_vars(InitRestore)

\* C38: while the session runs, a callback that has reached its send on the
\* client's event feed gets past it, however many events were pushed before
FeedSendsComplete ==
    hist.sending ~> ~hist.sending

\* ---------------------------------------------------------------------------
\* Searching the contacts: the search key, runes, Escape and the panel key.

SearchKeys == {"/", "a", QuitKey, "esc", NextPanelKey}

SearchKeyPress ==
    \E k \in SearchKeys :
        /\ Room(app.input, k)
        /\ (app.contacts.searchMode /\ k \in KeyRunes) =>
               Len(app.contacts.searchQuery) < MaxTyped
        /\ Consume(KeyMsg(k), inflight)
        /\ UNCHANGED <<eventChan, externalMsgs, env, pre, hist>>

SearchNext == SearchKeyPress \/ Deliver

SpecSearch == Init /\ [][SearchNext]_vars

\* Update takes a rune while the contacts panel is focused and searching
SearchRuneTaken ==
    /\ ev'.type = "KeyMsg"
    /\ ev'.key \in KeyRunes
    /\ app.focusedPanel = PanelContacts
    /\ app.contacts.searchMode
    /\ ~app.leaderKeyPressed

\* C39: in the search mode of the contacts panel a printable character is
\* appended to the query and does nothing else: no global command runs, and
\* the quit character does not quit
SearchRuneOnlyAppends ==
    [][SearchRuneTaken =>
          /\ app' = [app EXCEPT !.contacts =
                        ResetSelection([@ EXCEPT !.searchQuery = @ \o <<ev'.key>>])]
          /\ inflight' = inflight]_vars

\* ---------------------------------------------------------------------------
\* The messages panel on its own: hist is the MessagesModel; the application
\* focuses it, sizes it, hands it lists and messages and passes it keys.

\* most messages one list holds during a run
MaxMessages == 3

\* heights SetSize is given: none yet or a tiny terminal, and two that show
\* one and two messages
PanelHeights == {0, 6, 9}

MessagesKeys == {"k", "j", "pgup", "pgdown", "home", "G", "g"}

MessagesInit ==
    /\ app = NewApp
    /\ inflight = SeqToBag(<<ListenForEvents, ListenForExternalMsgs>>)
    /\ eventChan = <<>>
    /\ externalMsgs = <<>>
    /\ env = [init |-> "start", clientSet |-> FALSE, pushed |-> 0,
              files |-> {}, created |-> 0, run |-> NoRun]
    /\ ev = NoMsg
    /\ pre = NewApp
    /\ hist = NewMessagesModel

MessagesRest == UNCHANGED <<app, inflight, eventChan, externalMsgs, env, pre>>

\* MessagesModel.SetFocused
MessagesSetFocused ==
    \E b \in BOOLEAN :
        /\ hist' = [hist EXCEPT !.focused = b]
        /\ ev' = Msg("call", "SetFocused", "", <<>>)
        /\ MessagesRest

\* MessagesModel.SetSize
MessagesSetSize ==
    \E h \in PanelHeights :
        /\ hist' = [hist EXCEPT !.height = h]
        /\ ev' = Msg("call", "SetSize", "", <<>>)
        /\ MessagesRest

\* the run stops following a selection or an offset that has left the list
\* by more than one step
MessagesWindow == -(MaxMessages + 1)..(MaxMessages + 1)

MessagesKey ==
    \E k \in MessagesKeys :
        /\ hist' = MessagesUpdate(hist, KeyMsg(k))
        /\ hist'.selected \in MessagesWindow
        /\ hist'.offset \in MessagesWindow
        /\ ev' = KeyMsg(k)
        /\ MessagesRest

MessagesSet ==
    \E id \in ConvIDs : \E n \in 0..MaxMessages :
        /\ hist' = SetMessages(hist, id, n)
        /\ ev' = Msg("call", "SetMessages", id, <<>>)
        /\ MessagesRest

MessagesAdd ==
    \E id \in ConvIDs :
        /\ hist.count < MaxMessages
        /\ hist' = AddMessage(hist, id)
        /\ ev' = Msg("call", "AddMessage", id, <<>>)
        /\ MessagesRest

MessagesNext ==
    \/ MessagesSetFocused
    \/ MessagesSetSize
    \/ MessagesKey
    \/ MessagesSet
    \/ MessagesAdd

SpecMessages == MessagesInit /\ [][MessagesNext]_vars

\* C40: in the messages panel the selection stays between 0 and the last
\* message (0 when the list is empty) and the offset is never negative,
\* after any keys, SetMessages and AddMessage, for an empty list and for any
\* panel height
SelectionInRange ==
    /\ 0 <= hist.selected
    /\ hist.selected <= Max(0, hist.count - 1)
    /\ 0 <= hist.offset

====
